---- MODULE Spec2Model ----
(***************************************************************************)
(* Virtual Tour Editor: the session-scoped tour-graph cache.               *)
(*                                                                         *)
(*   - the store (SQLite tables tours / assets / connections) and the      *)
(*     gateway calls of src/src/database/mod.rs;                           *)
(*   - the session registry EDITOR_SESSIONS and the per-connection         *)
(*     handlers of src/src/main.rs;                                        *)
(*   - the Tour Graph and the editor command processor.  The module        *)
(*     src/src/editor/mod.rs holds no live code (every line is a comment), *)
(*     so EditorState and its methods are modelled from spec.md 3, 4.1     *)
(*     and 4.2.                                                            *)
(***************************************************************************)
EXTENDS Integers, Sequences, FiniteSets, TLC

(***************************************************************************)
(* Bounds of the model.                                                    *)
(***************************************************************************)
\* ids the gateway may hand to the Tour Graph in the data-structure
\* specification SpecGraph
MaxSceneId == 2
MaxConnId == 2

\* the null initial-scene pointer (Option::None / SQL NULL); ids start at 1
Null == 0

(***************************************************************************)
(* Sequence and map helpers.                                               *)
(***************************************************************************)
EmptyMap == [x \in {} |-> Null]

Restrict(f, S) == [x \in S |-> f[x]]

RemoveAt(s, i) == SubSeq(s, 1, i - 1) \o SubSeq(s, i + 1, Len(s))

Range(s) == {s[i] : i \in DOMAIN s}

\* the elements of a set of integers as an ascending sequence (row order)
RECURSIVE SortedSeq(_)
SortedSeq(S) ==
    IF S = {} THEN <<>>
    ELSE LET m == CHOOSE x \in S : \A y \in S : x <= y
         IN  <<m>> \o SortedSeq(S \ {m})

(***************************************************************************)
(* Tour Graph (spec.md 3 and 4.1).                                         *)
(*   scene      = [id, connections : Seq(connection)]                      *)
(*   connection = [id, target, is_transition]                              *)
(*   graph      = [tour_id, username, scenes, initial_scene,               *)
(*                 scene_index : id -> position,                           *)
(*                 connection_index : id -> <<owner scene id, position>>]  *)
(***************************************************************************)
EditorStateNew(tour_id, username) ==
    [tour_id |-> tour_id, username |-> username, scenes |-> <<>>,
     initial_scene |-> Null, scene_index |-> EmptyMap,
     connection_index |-> EmptyMap]

SceneIds(g) == {g.scenes[i].id : i \in DOMAIN g.scenes}

ConnIds(scene) == {scene.connections[i].id : i \in DOMAIN scene.connections}

\* scene id -> position in the collection, derived from the collection
BuildSceneIndex(scenes) ==
    [sid \in {scenes[i].id : i \in DOMAIN scenes} |->
        CHOOSE i \in DOMAIN scenes : scenes[i].id = sid]

\* one scene's portion of the connection index
SceneConnIndex(scene) ==
    [cid \in ConnIds(scene) |->
        <<scene.id, CHOOSE i \in DOMAIN scene.connections :
                        scene.connections[i].id = cid>>]

\* find_scene / find_connection: lookups through the indices
FindScene(g, sid) == g.scenes[g.scene_index[sid]]

FindConnection(g, cid) ==
    LET loc == g.connection_index[cid]
    IN  FindScene(g, loc[1]).connections[loc[2]]

\* an insert_scene that never touches the pointer
InsertSceneNoInitial(g, sid) ==
    [g EXCEPT !.scenes = Append(@, [id |-> sid, connections |-> <<>>]),
              !.scene_index = (sid :> (Len(g.scenes) + 1)) @@ @]

\* insert_scene: append, index; the first scene becomes the initial scene
InsertScene(g, sid) ==
    [g EXCEPT !.scenes = Append(@, [id |-> sid, connections |-> <<>>]),
              !.scene_index = (sid :> (Len(g.scenes) + 1)) @@ @,
              !.initial_scene = IF g.scenes = <<>> THEN sid ELSE @]

\* insert_connection: no mutation when the owner is unknown, else append and index
\* an insertion that also appends the connection to the first scene's list
InsertConnectionShared(g, owner, conn) ==
    IF owner \notin DOMAIN g.scene_index THEN g
    ELSE LET si == g.scene_index[owner]
             pos == Len(g.scenes[si].connections) + 1
             h == [g EXCEPT !.scenes[si].connections = Append(@, conn),
                            !.connection_index = (conn.id :> <<owner, pos>>) @@ @]
         IN  IF si = 1 THEN h
             ELSE [h EXCEPT !.scenes[1].connections = Append(@, conn)]

InsertConnectionOk(g, owner) == owner \in DOMAIN g.scene_index

InsertConnection(g, owner, conn) ==
    IF ~InsertConnectionOk(g, owner) THEN g
    ELSE LET si == g.scene_index[owner]
             pos == Len(g.scenes[si].connections) + 1
         IN  [g EXCEPT !.scenes[si].connections = Append(@, conn),
                       !.connection_index = (conn.id :> <<owner, pos>>) @@ @]

\* a removal that drops the id from the index and leaves the later positions stale
RemoveConnectionStale(g, cid) ==
    IF cid \notin DOMAIN g.connection_index THEN g
    ELSE LET loc == g.connection_index[cid]
             si == g.scene_index[loc[1]]
         IN  [g EXCEPT !.scenes[si].connections = RemoveAt(@, loc[2]),
                       !.connection_index =
                           Restrict(@, DOMAIN g.connection_index \ {cid})]

\* remove_connection: fails if not indexed; removes from the owner's list and
\* re-derives that scene's portion of the connection index
RemoveConnection(g, cid) ==
    IF cid \notin DOMAIN g.connection_index THEN g
    ELSE LET loc == g.connection_index[cid]
             si == g.scene_index[loc[1]]
             scene == [g.scenes[si] EXCEPT !.connections = RemoveAt(@, loc[2])]
             others == {c \in DOMAIN g.connection_index :
                            g.connection_index[c][1] # loc[1]}
         IN  [g EXCEPT !.scenes[si] = scene,
                       !.connection_index =
                           SceneConnIndex(scene) @@ Restrict(@, others)]

RECURSIVE RemoveConnections(_, _)
RemoveConnections(g, cids) ==
    IF cids = <<>> THEN g
    ELSE RemoveConnections(RemoveConnection(g, Head(cids)), Tail(cids))

\* ids of the connections a scene owns, in list order
OwnedIds(scene) == [i \in DOMAIN scene.connections |-> scene.connections[i].id]

\* ids of the connections of the other scenes whose target is sid, in scene order
RECURSIVE TargetingIds(_, _)
TargetingIds(scenes, sid) ==
    IF scenes = <<>> THEN <<>>
    ELSE LET s == Head(scenes)
             hit == SelectSeq(s.connections, LAMBDA c : c.target = sid)
         IN  (IF s.id = sid THEN <<>> ELSE [i \in DOMAIN hit |-> hit[i].id])
             \o TargetingIds(Tail(scenes), sid)

\* a returned list that misses the connections of the other scenes
CascadeOwnedOnly(g, sid) == OwnedIds(FindScene(g, sid))

\* the list remove_scene returns: every connection the cascade removes
CascadeIds(g, sid) == OwnedIds(FindScene(g, sid)) \o TargetingIds(g.scenes, sid)

\* the values the repaired pointer may take when sid is removed
NewInitialChoices(g, sid) ==
    IF g.initial_scene # sid THEN {g.initial_scene}
    ELSE IF SceneIds(g) \ {sid} = {} THEN {Null}
    ELSE SceneIds(g) \ {sid}

\* remove_scene with a pointer that is left as it was
RemoveSceneKeepPointer(g, sid, new_initial) ==
    LET g1 == RemoveConnections(g, TargetingIds(g.scenes, sid))
        scenes == RemoveAt(g1.scenes, g1.scene_index[sid])
        kept == {c \in DOMAIN g1.connection_index :
                     g1.connection_index[c][1] # sid}
    IN  [g1 EXCEPT !.scenes = scenes,
                   !.scene_index = BuildSceneIndex(scenes),
                   !.connection_index = Restrict(@, kept)]

\* remove_scene: removes the scene, the connections it owns and the connections
\* elsewhere that target it; rebuilds the scene index; repairs the pointer
RemoveScene(g, sid, new_initial) ==
    LET g1 == RemoveConnections(g, TargetingIds(g.scenes, sid))
        scenes == RemoveAt(g1.scenes, g1.scene_index[sid])
        kept == {c \in DOMAIN g1.connection_index :
                     g1.connection_index[c][1] # sid}
    IN  [g1 EXCEPT !.scenes = scenes,
                   !.scene_index = BuildSceneIndex(scenes),
                   !.connection_index = Restrict(@, kept),
                   !.initial_scene = new_initial]

\* SetInitialScene on a known scene
SetInitial(g, sid) == [g EXCEPT !.initial_scene = sid]

\* mutate_connection: fails if the id is not indexed; otherwise applies the
\* supplied fields in place (Null = target not supplied)
MutateConnection(g, cid, new_target) ==
    IF cid \notin DOMAIN g.connection_index \/ new_target = Null THEN g
    ELSE LET loc == g.connection_index[cid]
             si == g.scene_index[loc[1]]
         IN  [g EXCEPT !.scenes[si].connections[loc[2]].target = new_target]

(***************************************************************************)
(* The store: the tables the gateway reads and writes.                     *)
(*   tours       : id -> [owner, initial_scene_id]                         *)
(*   assets      : id -> [tour_id, is_scene]                               *)
(*   connections : id -> [tour_id, start_id, end_id, is_transition]        *)
(*   seq         : table -> the largest row id the table has handed out    *)
(***************************************************************************)
\* caps on the row ids of the store
MaxTourId == 2
MaxAssetId == 3

UserA == <<"a">>
UserB == <<"a", "_", "b">>
Users == {UserA, UserB}

Clients == {1, 2}

EmptyStore ==
    [tours |-> EmptyMap, assets |-> EmptyMap, connections |-> EmptyMap,
     seq |-> [tours |-> 0, assets |-> 0, connections |-> 0]]

\* a database file left by earlier runs: tours.db is opened, not recreated, when
\* it exists.  One tour of user a, two scenes linked in both directions.
SeedStore ==
    [tours |-> (1 :> [owner |-> UserA, initial_scene_id |-> 1]),
     assets |-> (1 :> [tour_id |-> 1, is_scene |-> TRUE])
                @@ (2 :> [tour_id |-> 1, is_scene |-> TRUE]),
     connections |->
        (1 :> [tour_id |-> 1, start_id |-> 1, end_id |-> 2, is_transition |-> TRUE])
        @@ (2 :> [tour_id |-> 1, start_id |-> 2, end_id |-> 1, is_transition |-> TRUE]),
     seq |-> [tours |-> 1, assets |-> 2, connections |-> 2]]

\* last_insert_rowid of an INSERT into a table whose ids are never reused
NewRowId(st, table) == st.seq[table] + 1

\* create_tour: the new row's initial_scene_id is the literal 1
DbCreateTour(st, username) ==
    [st EXCEPT !.tours = (NewRowId(st, "tours") :>
                            [owner |-> username, initial_scene_id |-> 1]) @@ @,
               !.seq.tours = @ + 1]

\* save_scene: INSERT INTO assets (..., is_scene = 1)
DbSaveScene(st, tour_id) ==
    [st EXCEPT !.assets = (NewRowId(st, "assets") :>
                             [tour_id |-> tour_id, is_scene |-> TRUE]) @@ @,
               !.seq.assets = @ + 1]

\* delete_scene whose first statement forgets the rows that end at the scene
DbDeleteSceneStartOnly(st, scene_id, done) ==
    LET conns == {c \in DOMAIN st.connections :
                      st.connections[c].start_id # scene_id}
        st1 == [st EXCEPT !.connections = Restrict(@, conns)]
    IN  IF done = 0 THEN st
        ELSE IF done = 1 THEN st1
        ELSE [st1 EXCEPT !.assets = Restrict(@, DOMAIN st.assets \ {scene_id})]

\* delete_scene: two statements outside a transaction; done = the number of
\* statements that had executed when the call returned (2 = Ok, less = Err)
DbDeleteScene(st, scene_id, done) ==
    LET conns == {c \in DOMAIN st.connections :
                      /\ st.connections[c].start_id # scene_id
                      /\ st.connections[c].end_id # scene_id}
        st1 == [st EXCEPT !.connections = Restrict(@, conns)]
    IN  IF done = 0 THEN st
        ELSE IF done = 1 THEN st1
        ELSE [st1 EXCEPT !.assets = Restrict(@, DOMAIN st.assets \ {scene_id})]

\* set_initial_scene / clear_initial_scene: UPDATE tours ... WHERE id = tour_id
DbSetInitialScene(st, tour_id, scene_id) ==
    IF tour_id \in DOMAIN st.tours
    THEN [st EXCEPT !.tours[tour_id].initial_scene_id = scene_id]
    ELSE st

DbClearInitialScene(st, tour_id) == DbSetInitialScene(st, tour_id, Null)

\* save_connection: the INSERT names eight columns and seven values, so the
\* statement is rejected and the call returns Err on every input
DbSaveConnectionOk == FALSE

DbSaveConnection(st, tour_id, start_id, end_id) == st

\* delete_connection: DELETE FROM connections WHERE id = ?
DbDeleteConnection(st, connection_id) ==
    [st EXCEPT !.connections = Restrict(@, DOMAIN st.connections \ {connection_id})]

\* update_connection: the SET list is built from the supplied fields; with no
\* field supplied the statement is "UPDATE connections SET  WHERE id = ?1",
\* which is rejected
DbUpdateConnectionOk(end_id, other) == end_id # Null \/ other

\* an UPDATE of end_id that has lost its WHERE clause
DbUpdateConnectionEveryRow(st, connection_id, end_id) ==
    IF connection_id \in DOMAIN st.connections /\ end_id # Null
    THEN [st EXCEPT !.connections =
            [r \in DOMAIN @ |-> [@[r] EXCEPT !.end_id = end_id]]]
    ELSE st

\* update_connection: UPDATE connections SET end_id = ? ... WHERE id = ?
DbUpdateConnection(st, connection_id, end_id) ==
    IF connection_id \in DOMAIN st.connections /\ end_id # Null
    THEN [st EXCEPT !.connections[connection_id].end_id = end_id]
    ELSE st

\* update_scene: UPDATE assets SET modified_at = ..., file_path = ? WHERE id = ?
\* (the columns it writes are not part of the modelled rows)
DbUpdateScene(st, scene_id) == st

\* save_closeup: INSERT INTO assets (..., is_scene = 0)
DbSaveCloseup(st, tour_id) ==
    [st EXCEPT !.assets = (NewRowId(st, "assets") :>
                             [tour_id |-> tour_id, is_scene |-> FALSE]) @@ @,
               !.seq.assets = @ + 1]

\* delete_tour: the tour exists and belongs to the user (the first SELECT)
DbDeleteTourOk(st, username, tour_id) ==
    /\ tour_id \in DOMAIN st.tours
    /\ st.tours[tour_id].owner = username

\* a delete_tour that forgets the asset rows
DbDeleteTourKeepsAssets(st, username, tour_id, done) ==
    LET conns == {c \in DOMAIN st.connections : st.connections[c].tour_id # tour_id}
        st1 == [st EXCEPT !.connections = Restrict(@, conns)]
    IN  IF ~DbDeleteTourOk(st, username, tour_id) \/ done = 0 THEN st
        ELSE IF done < 3 THEN st1
        ELSE [st1 EXCEPT !.tours = Restrict(@, DOMAIN st.tours \ {tour_id})]

\* delete_tour: three DELETE statements outside a transaction (connections,
\* assets, tour); done = the number of them that had executed when the call
\* returned (3 = Ok(true), less = Err).  Ok(false) when the first SELECT finds
\* no tour of that user.
DbDeleteTour(st, username, tour_id, done) ==
    LET conns == {c \in DOMAIN st.connections : st.connections[c].tour_id # tour_id}
        assets == {a \in DOMAIN st.assets : st.assets[a].tour_id # tour_id}
        st1 == [st EXCEPT !.connections = Restrict(@, conns)]
        st2 == [st1 EXCEPT !.assets = Restrict(@, assets)]
    IN  IF ~DbDeleteTourOk(st, username, tour_id) \/ done = 0 THEN st
        ELSE IF done = 1 THEN st1
        ELSE IF done = 2 THEN st2
        ELSE [st2 EXCEPT !.tours = Restrict(@, DOMAIN st.tours \ {tour_id})]

(***************************************************************************)
(* load_from_database (spec.md 6, load_tour_graph): the scene and          *)
(* connection tree of one tour of one user.                                *)
(***************************************************************************)
LoadOk(st, username, tour_id) ==
    /\ tour_id \in DOMAIN st.tours
    /\ st.tours[tour_id].owner = username

LoadScene(st, tour_id, sid) ==
    LET rows == SortedSeq({c \in DOMAIN st.connections :
                               /\ st.connections[c].tour_id = tour_id
                               /\ st.connections[c].start_id = sid})
    IN  [id |-> sid,
         connections |-> [i \in DOMAIN rows |->
             [id |-> rows[i], target |-> st.connections[rows[i]].end_id,
              is_transition |-> st.connections[rows[i]].is_transition]]]

RECURSIVE BuildConnIndex(_)
BuildConnIndex(scenes) ==
    IF scenes = <<>> THEN EmptyMap
    ELSE SceneConnIndex(Head(scenes)) @@ BuildConnIndex(Tail(scenes))

LoadGraph(st, username, tour_id) ==
    LET ids == SortedSeq({a \in DOMAIN st.assets :
                              /\ st.assets[a].tour_id = tour_id
                              /\ st.assets[a].is_scene})
        scenes == [i \in DOMAIN ids |-> LoadScene(st, tour_id, ids[i])]
        stored == st.tours[tour_id].initial_scene_id
    IN  [tour_id |-> tour_id, username |-> username, scenes |-> scenes,
         initial_scene |-> IF stored \in Range(ids) THEN stored ELSE Null,
         scene_index |-> BuildSceneIndex(scenes),
         connection_index |-> BuildConnIndex(scenes)]

(***************************************************************************)
(* The session registry EDITOR_SESSIONS: key "username_tourid" -> state.   *)
(***************************************************************************)
DigitChar == <<"0", "1", "2", "3", "4", "5", "6", "7", "8", "9">>

RECURSIVE Digits(_)
Digits(n) == IF n < 10 THEN <<DigitChar[n + 1]>>
             ELSE Digits(n \div 10) \o <<DigitChar[(n % 10) + 1]>>

\* format!("{}_{}", username, tour_id)
SessionKey(username, tour_id) == username \o <<"_">> \o Digits(tour_id)

StartsWith(s, prefix) ==
    /\ Len(prefix) <= Len(s)
    /\ SubSeq(s, 1, Len(prefix)) = prefix

\* an eviction that drops one key only
CleanupOneTour(reg, username) ==
    Restrict(reg, DOMAIN reg \ {SessionKey(username, 1)})

\* cleanup_user_editor_sessions: retain the keys that do not start with "username_"
CleanupUserEditorSessions(reg, username) ==
    Restrict(reg, {k \in DOMAIN reg : ~StartsWith(k, username \o <<"_">>)})

\* sessions.insert(session_key, editor_state)
SessionsInsert(reg, key, state) == (key :> state) @@ reg

(***************************************************************************)
(* The user_sessions table.                                                *)
(*   rows : session_token -> [username, is_active, age]                    *)
(*   seq  : the number of tokens issued (a token is a fresh uuid)          *)
(* age is the class of now - last_activity that the statements compare:    *)
(* under 2 minutes, 2 to 10 minutes, 10 minutes to a day, over a day.      *)
(***************************************************************************)
\* cap on the tokens issued
MaxToken == 3

\* validate_session: more active sessions than this start the per-user cleanup
MaxActiveSessions == 2

AgeOrder == <<"fresh", "idle2", "idle10", "day">>

Rank(age) == CHOOSE i \in DOMAIN AgeOrder : AgeOrder[i] = age

Older(age) == IF Rank(age) = Len(AgeOrder) THEN age ELSE AgeOrder[Rank(age) + 1]

AtLeast(age, limit) == Rank(age) >= Rank(limit)

EmptyAuth == [rows |-> EmptyMap, seq |-> 0]

\* time passes: the rows at least as old as `from` move to the next class
AuthElapse(au, from) ==
    [au EXCEPT !.rows = [t \in DOMAIN @ |->
        IF AtLeast(@[t].age, from) THEN [@[t] EXCEPT !.age = Older(@)] ELSE @[t]]]

\* login_user: INSERT INTO user_sessions (token, username, now, now, 1)
DbLoginUser(au, username) ==
    [rows |-> ((au.seq + 1) :> [username |-> username, is_active |-> TRUE,
                                age |-> "fresh"]) @@ au.rows,
     seq |-> au.seq + 1]

ActiveTokens(au, username) ==
    {t \in DOMAIN au.rows : au.rows[t].username = username /\ au.rows[t].is_active}

\* validate_session: SELECT ... WHERE session_token = ? AND username = ? AND
\* is_active = 1
ValidateSession(au, username, token) == token \in ActiveTokens(au, username)

\* validate_session, its writes: last_activity of the token is refreshed; with
\* more than two active sessions of the user, the others idle for two minutes
\* are deactivated.  done = the number of UPDATE statements that had executed
\* when the call returned.
DbValidateSession(au, username, token, done) ==
    IF ~ValidateSession(au, username, token) \/ done = 0 THEN au
    ELSE LET au1 == [au EXCEPT !.rows[token].age = "fresh"]
             stale == {t \in ActiveTokens(au1, username) \ {token} :
                          AtLeast(au1.rows[t].age, "idle2")}
         IN  IF done = 1 \/ Cardinality(ActiveTokens(au1, username)) <= MaxActiveSessions
             THEN au1
             ELSE [au1 EXCEPT !.rows = [t \in DOMAIN @ |->
                     IF t \in stale THEN [@[t] EXCEPT !.is_active = FALSE]
                     ELSE @[t]]]

\* a logout that deactivates the newest session of the user only
DbLogoutUserNewest(au, username, done) ==
    LET mine == {t \in DOMAIN au.rows : au.rows[t].username = username}
    newest == IF mine = {} THEN {}
                 ELSE {CHOOSE t \in mine : \A u \in mine : u <= t}
    IN  IF done = 0 THEN au
        ELSE [au EXCEPT !.rows = [t \in DOMAIN @ |->
                IF t \in newest THEN [@[t] EXCEPT !.is_active = FALSE]
                ELSE @[t]]]

\* logout_user: UPDATE user_sessions SET is_active = 0 WHERE username = ?, then
\* UPDATE users ...; done = the number of statements that had executed when
\* the call returned (2 = Ok)
DbLogoutUser(au, username, done) ==
    IF done = 0 THEN au
    ELSE [au EXCEPT !.rows = [t \in DOMAIN @ |->
            IF @[t].username = username THEN [@[t] EXCEPT !.is_active = FALSE]
            ELSE @[t]]]

\* cleanup_old_sessions: DELETE the rows idle for over a day, then deactivate
\* the active rows idle for over ten minutes; done as above (2 = Ok)
DbCleanupOldSessions(au, done) ==
    LET kept == {t \in DOMAIN au.rows : au.rows[t].age # "day"}
        au1 == [au EXCEPT !.rows = Restrict(@, kept)]
    IN  IF done = 0 THEN au
        ELSE IF done = 1 THEN au1
        ELSE [au1 EXCEPT !.rows = [t \in DOMAIN @ |->
                IF AtLeast(@[t].age, "idle10")
                THEN [@[t] EXCEPT !.is_active = FALSE] ELSE @[t]]]

(***************************************************************************)
(* State.                                                                  *)
(*   store            the database                                         *)
(*   sessions         EDITOR_SESSIONS                                      *)
(*   pc[c]            where connection c's handler stands                  *)
(*   user_name[c]     user.name of the logged-in clone in handle_client    *)
(*   curr_user_name[c] curr_user.name in handle_websocket                  *)
(*   cur_tour[c]      tour_id of the EditTour message being handled        *)
(*   editor_state[c]  the local EditorState clone of that message          *)
(*   save_result[c]   what save_to_database returned                       *)
(*   out[c]           events sent while handling the latest message        *)
(*   evicted[c]       keys the latest cleanup call of c removed            *)
(*   lock             the guard of EDITOR_SESSIONS each connection holds   *)
(*   chan[c]          whether the receiving end of c's outbound channel    *)
(*                    (rx in send_task) is still there                     *)
(*   auth             the user_sessions table                              *)
(*   active_connections  ACTIVE_CONNECTIONS                                 *)
(*   graph, last      the Tour Graph of SpecGraph and its last call        *)
(*   contents, parsed the text given to parse_tourdata_js and what the     *)
(*                    call did                                             *)
(*   imp              the locals of import_tour_from_export                *)
(***************************************************************************)
VARIABLES store, sessions, pc, user_name, curr_user_name, cur_tour,
          editor_state, save_result, out, evicted, lock, chan, auth,
          active_connections, graph, last, contents, parsed, imp

hvars == <<store, sessions, pc, user_name, curr_user_name, cur_tour,
           editor_state, save_result, out, evicted, lock, chan, auth,
           active_connections>>

gvars == <<graph, last>>

ivars == <<contents, parsed, imp>>

\* hvars without the store
handler_locals == <<sessions, pc, user_name, curr_user_name, cur_tour,
                    editor_state, save_result, out, evicted, lock, chan, auth,
                    active_connections>>

vars == <<hvars, gvars, ivars>>

NoUser == <<>>
NoState == EditorStateNew(Null, NoUser)

NoCall == [op |-> "new", arg |-> Null, ret |-> <<>>, loc |-> <<>>,
           was_initial |-> FALSE]

Ev(type, id) == [type |-> type, id |-> id]

ErrorEv == Ev("error", Null)

\* the importer has not been called
NoParse == [kind |-> "none"]
NoImport == [pc |-> "idle"]

ImporterIdle ==
    /\ contents = <<>>
    /\ parsed = NoParse
    /\ imp = NoImport

HandlerInit ==
    /\ sessions = EmptyMap
    /\ pc = [c \in Clients |-> "new"]
    /\ user_name = [c \in Clients |-> NoUser]
    /\ curr_user_name = [c \in Clients |-> NoUser]
    /\ cur_tour = [c \in Clients |-> Null]
    /\ editor_state = [c \in Clients |-> NoState]
    /\ save_result = [c \in Clients |-> "none"]
    /\ out = [c \in Clients |-> <<>>]
    /\ evicted = [c \in Clients |-> {}]
    /\ lock = [c \in Clients |-> "none"]
    /\ chan = [c \in Clients |-> "open"]
    /\ auth = EmptyAuth
    /\ active_connections = 0

Init ==
    /\ store \in {EmptyStore, SeedStore}
    /\ HandlerInit
    /\ graph = NoState
    /\ last = NoCall
    /\ ImporterIdle

(***************************************************************************)
(* handle_websocket / handle_login_phase.                                  *)
(***************************************************************************)
\* handle_websocket up to the first handle_login_phase:
\* ACTIVE_CONNECTIONS.fetch_add(1), curr_user.name = ""
Connect(c) ==
    /\ pc[c] = "new"
    /\ pc' = [pc EXCEPT ![c] = "login"]
    /\ out' = [out EXCEPT ![c] = <<Ev("welcome", Null)>>]
    /\ active_connections' = active_connections + 1
    /\ UNCHANGED <<store, sessions, user_name, curr_user_name, cur_tour,
                   editor_state, save_result, evicted, lock, chan, auth,
                   gvars, ivars>>

\* Login / Register / RestoreSession accepted: the clone `user` gets the name,
\* curr_user keeps its empty one; handle_client starts by sending the tours
LoginOk(c, u) ==
    /\ pc[c] = "login"
    /\ pc' = [pc EXCEPT ![c] = "client"]
    /\ user_name' = [user_name EXCEPT ![c] = u]
    /\ out' = [out EXCEPT ![c] = <<Ev("login_ok", Null), Ev("tours", Null)>>]
    /\ evicted' = [evicted EXCEPT ![c] = {}]
    /\ UNCHANGED <<store, sessions, curr_user_name, cur_tour, editor_state,
                   save_result, lock, chan, auth, active_connections,
                   gvars, ivars>>

\* Login refused: stays in the login phase
LoginFail(c) ==
    /\ pc[c] = "login"
    /\ out' = [out EXCEPT ![c] = <<Ev("login_failed", Null)>>]
    /\ evicted' = [evicted EXCEPT ![c] = {}]
    /\ UNCHANGED <<store, sessions, pc, user_name, curr_user_name, cur_tour,
                   editor_state, save_result, lock, chan, auth,
                   active_connections, gvars, ivars>>

\* a tail that leaves the connection counter as it is
WebsocketTailKeepsCount(c) ==
    /\ pc' = [pc EXCEPT ![c] = "closed"]
    /\ sessions' = IF curr_user_name[c] # NoUser
                   THEN CleanupUserEditorSessions(sessions, curr_user_name[c])
                   ELSE sessions
    /\ evicted' = [evicted EXCEPT ![c] = DOMAIN sessions \ DOMAIN sessions']
    /\ out' = [out EXCEPT ![c] = <<>>]
    /\ \E done \in 0..2 : auth' = DbCleanupOldSessions(auth, done)
    /\ UNCHANGED <<store, user_name, curr_user_name, cur_tour, editor_state,
                   save_result, lock, chan, active_connections, gvars, ivars>>

\* the tail of handle_websocket after the phase loop: cleanup_old_sessions
\* (result dropped), then the registry is cleaned for curr_user.name when that
\* name is not empty, then ACTIVE_CONNECTIONS.fetch_sub(1)
WebsocketTail(c) ==
    /\ pc' = [pc EXCEPT ![c] = "closed"]
    /\ sessions' = IF curr_user_name[c] # NoUser
                   THEN CleanupUserEditorSessions(sessions, curr_user_name[c])
                   ELSE sessions
    /\ evicted' = [evicted EXCEPT ![c] = DOMAIN sessions \ DOMAIN sessions']
    /\ out' = [out EXCEPT ![c] = <<>>]
    /\ \E done \in 0..2 : auth' = DbCleanupOldSessions(auth, done)
    /\ active_connections' = active_connections - 1
    /\ UNCHANGED <<store, user_name, curr_user_name, cur_tour, editor_state,
                   save_result, lock, chan, gvars, ivars>>

\* Disconnect, Quit or a transport error in the login phase
LoginPhaseEnd(c) ==
    /\ pc[c] = "login"
    /\ WebsocketTail(c)

(***************************************************************************)
(* handle_client.                                                          *)
(***************************************************************************)
\* CreateTour
CreateTour(c) ==
    /\ pc[c] = "client"
    /\ \E ok \in BOOLEAN :
          IF ok
          THEN /\ NewRowId(store, "tours") <= MaxTourId
               /\ store' = DbCreateTour(store, user_name[c])
               /\ out' = [out EXCEPT ![c] =
                    <<Ev("tour_created", NewRowId(store, "tours")),
                      Ev("tours", Null)>>]
          ELSE /\ store' = store
               /\ out' = [out EXCEPT ![c] = <<Ev("create_failed", Null)>>]
    /\ evicted' = [evicted EXCEPT ![c] = {}]
    /\ UNCHANGED <<sessions, pc, user_name, curr_user_name, cur_tour,
                   editor_state, save_result, lock, chan, auth,
                   active_connections, gvars, ivars>>

\* Logout, first await: db.logout_user (its result is dropped)
LogoutUser(c) ==
    /\ pc[c] = "client"
    /\ pc' = [pc EXCEPT ![c] = "logging_out"]
    /\ \E done \in 0..2 : auth' = DbLogoutUser(auth, user_name[c], done)
    /\ out' = [out EXCEPT ![c] = <<>>]
    /\ evicted' = [evicted EXCEPT ![c] = {}]
    /\ UNCHANGED <<store, sessions, user_name, curr_user_name, cur_tour,
                   editor_state, save_result, lock, chan,
                   active_connections, gvars, ivars>>

\* a Logout after which handle_client goes on with its loop
LogoutCleanupStaysIn(c) ==
    /\ pc[c] = "logging_out"
    /\ sessions' = CleanupUserEditorSessions(sessions, user_name[c])
    /\ evicted' = [evicted EXCEPT ![c] = DOMAIN sessions \ DOMAIN sessions']
    /\ out' = [out EXCEPT ![c] = <<Ev("logged_out", Null)>>]
    /\ pc' = [pc EXCEPT ![c] = "client"]
    /\ UNCHANGED <<store, user_name, curr_user_name, cur_tour, editor_state,
                   save_result, lock, chan, auth, active_connections,
                   gvars, ivars>>

\* Logout, rest: cleanup_user_editor_sessions(user.name), reply, back to login
LogoutCleanup(c) ==
    /\ pc[c] = "logging_out"
    /\ sessions' = CleanupUserEditorSessions(sessions, user_name[c])
    /\ evicted' = [evicted EXCEPT ![c] = DOMAIN sessions \ DOMAIN sessions']
    /\ out' = [out EXCEPT ![c] = <<Ev("logged_out", Null)>>]
    /\ pc' = [pc EXCEPT ![c] = "login"]
    /\ user_name' = [user_name EXCEPT ![c] = NoUser]
    /\ UNCHANGED <<store, curr_user_name, cur_tour, editor_state, save_result,
                   lock, chan, auth, active_connections, gvars, ivars>>

\* Disconnect, Quit or a transport error in the logged-in phase; also the end
\* of the socket's stream, after which handle_login_phase returns None at once
Disconnect(c) ==
    /\ pc[c] = "client"
    /\ WebsocketTail(c)

\* send_task of handle_websocket: a send to the socket fails, the task leaves
\* its loop and drops rx; from then on every tx.send of the connection returns
\* Err, which each caller drops (let _ =)
SendTaskEnds(c) ==
    /\ pc[c] \notin {"new", "closed"}
    /\ chan[c] = "open"
    /\ chan' = [chan EXCEPT ![c] = "closed"]
    /\ UNCHANGED <<store, sessions, pc, user_name, curr_user_name, cur_tour,
                   editor_state, save_result, out, evicted, lock, auth,
                   active_connections, gvars, ivars>>

\* ShowTours: get_tours_json, which returns the list or an error text
ShowTours(c) ==
    /\ pc[c] = "client"
    /\ \E ok \in BOOLEAN :
          out' = [out EXCEPT ![c] =
                    <<Ev(IF ok THEN "tours" ELSE "tours_failed", Null)>>]
    /\ evicted' = [evicted EXCEPT ![c] = {}]
    /\ UNCHANGED <<store, sessions, pc, user_name, curr_user_name, cur_tour,
                   editor_state, save_result, lock, chan, auth,
                   active_connections, gvars, ivars>>

\* DeleteTour: db.delete_tour, one reply per outcome; the registry is not
\* touched
DeleteTour(c, t) ==
    /\ pc[c] = "client"
    /\ \E done \in 0..3 :
          /\ store' = DbDeleteTour(store, user_name[c], t, done)
          /\ out' = [out EXCEPT ![c] =
                IF done < 3 THEN <<Ev("delete_failed", t)>>
                ELSE IF DbDeleteTourOk(store, user_name[c], t)
                THEN <<Ev("tour_deleted", t), Ev("tours", Null)>>
                ELSE <<Ev("tour_not_found", t)>>]
    /\ evicted' = [evicted EXCEPT ![c] = {}]
    /\ UNCHANGED <<sessions, pc, user_name, curr_user_name, cur_tour,
                   editor_state, save_result, lock, chan, auth,
                   active_connections, gvars, ivars>>

\* a text that is no ClientMessage, or a message with no arm of its own
\* (Help, Login, Register, RestoreSession): the fallback arm answers
NotImplemented(c) ==
    /\ pc[c] = "client"
    /\ out' = [out EXCEPT ![c] = <<Ev("not_implemented", Null)>>]
    /\ evicted' = [evicted EXCEPT ![c] = {}]
    /\ UNCHANGED <<store, sessions, pc, user_name, curr_user_name, cur_tour,
                   editor_state, save_result, lock, chan, auth,
                   active_connections, gvars, ivars>>

(***************************************************************************)
(* EditTour with an editor action.                                         *)
(***************************************************************************)
\* get_or_create_editor_session under the read lock: a hit returns a clone, a
\* miss goes on to EditorState::new and load_from_database
EditTourFetch(c, t) ==
    /\ pc[c] = "client"
    /\ cur_tour' = [cur_tour EXCEPT ![c] = t]
    /\ out' = [out EXCEPT ![c] = <<>>]
    /\ evicted' = [evicted EXCEPT ![c] = {}]
    /\ LET key == SessionKey(user_name[c], t)
       IN  IF key \in DOMAIN sessions
           THEN /\ editor_state' = [editor_state EXCEPT ![c] = sessions[key]]
                /\ pc' = [pc EXCEPT ![c] = "fetched"]
           ELSE /\ editor_state' = [editor_state EXCEPT ![c] =
                                        EditorStateNew(t, user_name[c])]
                /\ pc' = [pc EXCEPT ![c] = "loading"]
    /\ UNCHANGED <<store, sessions, user_name, curr_user_name, save_result, lock,
                   chan, auth, active_connections, gvars, ivars>>

\* an error path that sends nothing
EditTourAbortSilent(c, st) ==
    /\ store' = st
    /\ pc' = [pc EXCEPT ![c] = "client"]
    /\ editor_state' = [editor_state EXCEPT ![c] = NoState]
    /\ cur_tour' = [cur_tour EXCEPT ![c] = Null]
    /\ UNCHANGED <<sessions, user_name, curr_user_name, save_result, out,
                   evicted, lock, chan, auth, active_connections,
                   gvars, ivars>>

\* an error path that ends the connection
EditTourAbortCloses(c, st) ==
    /\ store' = st
    /\ out' = [out EXCEPT ![c] = Append(@, ErrorEv)]
    /\ pc' = [pc EXCEPT ![c] = "closed"]
    /\ editor_state' = [editor_state EXCEPT ![c] = NoState]
    /\ cur_tour' = [cur_tour EXCEPT ![c] = Null]
    /\ UNCHANGED <<sessions, user_name, curr_user_name, save_result, evicted, lock,
                   chan, auth, active_connections, gvars, ivars>>

\* an error path that drops the registry entry of the key
EditTourAbortDropsEntry(c, st) ==
    /\ store' = st
    /\ out' = [out EXCEPT ![c] = Append(@, ErrorEv)]
    /\ pc' = [pc EXCEPT ![c] = "client"]
    /\ editor_state' = [editor_state EXCEPT ![c] = NoState]
    /\ cur_tour' = [cur_tour EXCEPT ![c] = Null]
    /\ sessions' = Restrict(sessions,
                      DOMAIN sessions \ {SessionKey(user_name[c], cur_tour[c])})
    /\ UNCHANGED <<user_name, curr_user_name, save_result, evicted, lock,
                   chan, auth, active_connections, gvars, ivars>>

\* the message is answered with an error and nothing is stored back
EditTourAbort(c, st) ==
    /\ store' = st
    /\ out' = [out EXCEPT ![c] = Append(@, ErrorEv)]
    /\ pc' = [pc EXCEPT ![c] = "client"]
    /\ editor_state' = [editor_state EXCEPT ![c] = NoState]
    /\ cur_tour' = [cur_tour EXCEPT ![c] = Null]
    /\ UNCHANGED <<sessions, user_name, curr_user_name, save_result, evicted, lock,
                   chan, auth, active_connections, gvars, ivars>>

\* a first access that keeps the new, empty state when the load fails
LoadFromDatabaseKeepsEmpty(c) ==
    /\ pc[c] = "loading"
    /\ \E ok \in BOOLEAN :
          IF ok /\ LoadOk(store, user_name[c], cur_tour[c])
          THEN /\ editor_state' = [editor_state EXCEPT ![c] =
                        LoadGraph(store, user_name[c], cur_tour[c])]
               /\ pc' = [pc EXCEPT ![c] = "loaded"]
               /\ UNCHANGED <<store, sessions, user_name, curr_user_name,
                              cur_tour, save_result, out, evicted, lock, chan, auth,
                              active_connections, gvars, ivars>>
          ELSE /\ sessions' = SessionsInsert(sessions,
                     SessionKey(user_name[c], cur_tour[c]), editor_state[c])
               /\ out' = [out EXCEPT ![c] = Append(@, ErrorEv)]
               /\ pc' = [pc EXCEPT ![c] = "client"]
               /\ editor_state' = [editor_state EXCEPT ![c] = NoState]
               /\ cur_tour' = [cur_tour EXCEPT ![c] = Null]
               /\ UNCHANGED <<store, user_name, curr_user_name, save_result,
                              evicted, lock, chan, auth,
                              active_connections, gvars, ivars>>

\* load_from_database, awaited with no registry lock held
LoadFromDatabase(c) ==
    /\ pc[c] = "loading"
    /\ \E ok \in BOOLEAN :
          IF ok /\ LoadOk(store, user_name[c], cur_tour[c])
          THEN /\ editor_state' = [editor_state EXCEPT ![c] =
                        LoadGraph(store, user_name[c], cur_tour[c])]
               /\ pc' = [pc EXCEPT ![c] = "loaded"]
               /\ UNCHANGED <<store, sessions, user_name, curr_user_name,
                              cur_tour, save_result, out, evicted, lock, chan, auth,
                              active_connections, gvars, ivars>>
          ELSE EditTourAbort(c, store)

\* get_or_create_editor_session under the write lock: insert the loaded state
InsertSession(c) ==
    /\ pc[c] = "loaded"
    /\ sessions' = SessionsInsert(sessions, SessionKey(user_name[c], cur_tour[c]),
                                  editor_state[c])
    /\ pc' = [pc EXCEPT ![c] = "fetched"]
    /\ UNCHANGED <<store, user_name, curr_user_name, cur_tour, editor_state,
                   save_result, out, evicted, lock, chan, auth,
                   active_connections, gvars, ivars>>

(***************************************************************************)
(* EditTour without an editor action.                                      *)
(***************************************************************************)
\* a snapshot query that selects the tour by id alone
OpenTourDataAnyOwner(c, t) ==
    /\ pc[c] = "client"
    /\ evicted' = [evicted EXCEPT ![c] = {}]
    /\ \E ok \in BOOLEAN :
          IF ok /\ t \in DOMAIN store.tours
          THEN /\ out' = [out EXCEPT ![c] = <<Ev("tour_data", t)>>]
               /\ cur_tour' = [cur_tour EXCEPT ![c] = t]
               /\ pc' = [pc EXCEPT ![c] = "opening"]
          ELSE /\ out' = [out EXCEPT ![c] = <<ErrorEv>>]
               /\ UNCHANGED <<cur_tour, pc>>
    /\ UNCHANGED <<store, sessions, user_name, curr_user_name, editor_state,
                   save_result, lock, chan, auth, active_connections,
                   gvars, ivars>>

\* get_tour_with_scenes: Ok(Some) sends tour_data and goes on to the session,
\* Ok(None) and Err send one error
OpenTourData(c, t) ==
    /\ pc[c] = "client"
    /\ evicted' = [evicted EXCEPT ![c] = {}]
    /\ \E ok \in BOOLEAN :
          IF ok /\ LoadOk(store, user_name[c], t)
          THEN /\ out' = [out EXCEPT ![c] = <<Ev("tour_data", t)>>]
               /\ cur_tour' = [cur_tour EXCEPT ![c] = t]
               /\ pc' = [pc EXCEPT ![c] = "opening"]
          ELSE /\ out' = [out EXCEPT ![c] = <<ErrorEv>>]
               /\ UNCHANGED <<cur_tour, pc>>
    /\ UNCHANGED <<store, sessions, user_name, curr_user_name, editor_state,
                   save_result, lock, chan, auth, active_connections,
                   gvars, ivars>>

\* the session is ready: editor_ready carries the state, the message is done
OpenReady(c) ==
    /\ out' = [out EXCEPT ![c] = Append(@, Ev("editor_ready", cur_tour[c]))]
    /\ pc' = [pc EXCEPT ![c] = "client"]
    /\ editor_state' = [editor_state EXCEPT ![c] = NoState]
    /\ cur_tour' = [cur_tour EXCEPT ![c] = Null]

\* get_or_create_editor_session under the read lock
OpenFetch(c) ==
    /\ pc[c] = "opening"
    /\ IF SessionKey(user_name[c], cur_tour[c]) \in DOMAIN sessions
       THEN OpenReady(c)
       ELSE /\ editor_state' = [editor_state EXCEPT ![c] =
                                    EditorStateNew(cur_tour[c], user_name[c])]
            /\ pc' = [pc EXCEPT ![c] = "open_loading"]
            /\ UNCHANGED <<out, cur_tour>>
    /\ UNCHANGED <<store, sessions, user_name, curr_user_name, save_result,
                   evicted, lock, chan, auth, active_connections,
                   gvars, ivars>>

\* load_from_database of the new session
OpenLoad(c) ==
    /\ pc[c] = "open_loading"
    /\ \E ok \in BOOLEAN :
          IF ok /\ LoadOk(store, user_name[c], cur_tour[c])
          THEN /\ editor_state' = [editor_state EXCEPT ![c] =
                        LoadGraph(store, user_name[c], cur_tour[c])]
               /\ pc' = [pc EXCEPT ![c] = "open_loaded"]
               /\ UNCHANGED <<store, sessions, user_name, curr_user_name,
                              cur_tour, save_result, out, evicted, lock,
                              chan, auth, active_connections, gvars, ivars>>
          ELSE EditTourAbort(c, store)

\* the loaded state is inserted under the write lock and returned
OpenInsert(c) ==
    /\ pc[c] = "open_loaded"
    /\ sessions' = SessionsInsert(sessions, SessionKey(user_name[c], cur_tour[c]),
                                  editor_state[c])
    /\ OpenReady(c)
    /\ UNCHANGED <<store, user_name, curr_user_name, save_result, evicted, lock,
                   chan, auth, active_connections, gvars, ivars>>

(***************************************************************************)
(* handle_action (spec.md 4.2): validate, write through, then mutate.      *)
(* A command on an unknown id sends an error event and returns Ok; a       *)
(* gateway error is returned as Err and handle_client sends the error.     *)
(***************************************************************************)
\* the command was carried out: the clone is mutated, the events are sent
Accepted(c, g, st, events) ==
    /\ editor_state' = [editor_state EXCEPT ![c] = g]
    /\ store' = st
    /\ out' = [out EXCEPT ![c] = @ \o events]
    /\ pc' = [pc EXCEPT ![c] = "acted"]
    /\ UNCHANGED <<sessions, user_name, curr_user_name, cur_tour, save_result,
                   evicted, lock, chan, auth, active_connections,
                   gvars, ivars>>

\* an unknown id that is answered with an error after the pointer was cleared
NotFoundClearsPointer(c) ==
    Accepted(c, [editor_state[c] EXCEPT !.initial_scene = Null], store,
             <<ErrorEv>>)

\* the command names an unknown scene or connection
NotFound(c) == Accepted(c, editor_state[c], store, <<ErrorEv>>)

ActAddScene(c) ==
    /\ pc[c] = "fetched"
    /\ LET g == editor_state[c]
           id == NewRowId(store, "assets")
           st1 == DbSaveScene(store, cur_tour[c])
       IN  \E saved \in BOOLEAN, pointed \in BOOLEAN :
              IF ~saved THEN pointed /\ EditTourAbort(c, store)
              ELSE /\ id <= MaxAssetId
                   /\ IF g.scenes # <<>>
                      THEN pointed /\
                           Accepted(c, InsertScene(g, id), st1,
                                    <<Ev("scene_added", id)>>)
                      ELSE IF pointed
                      THEN Accepted(c, InsertScene(g, id),
                                    DbSetInitialScene(st1, cur_tour[c], id),
                                    <<Ev("scene_added", id)>>)
                      ELSE EditTourAbort(c, st1)

ActDeleteScene(c, sid) ==
    /\ pc[c] = "fetched"
    /\ LET g == editor_state[c]
       IN  IF sid \notin DOMAIN g.scene_index THEN NotFound(c)
           ELSE \E done \in 0..2, pointed \in BOOLEAN :
                \E new_initial \in NewInitialChoices(g, sid) :
                   LET st1 == DbDeleteScene(store, sid, done)
                       events == <<Ev("scene_deleted", sid)>> \o
                                 [i \in DOMAIN CascadeIds(g, sid) |->
                                     Ev("connection_deleted", CascadeIds(g, sid)[i])]
                   IN  IF done < 2 THEN pointed /\ EditTourAbort(c, st1)
                       ELSE IF g.initial_scene # sid
                       THEN pointed /\
                            Accepted(c, RemoveScene(g, sid, new_initial), st1, events)
                       ELSE IF pointed
                       THEN Accepted(c, RemoveScene(g, sid, new_initial),
                                IF new_initial = Null
                                THEN DbClearInitialScene(st1, cur_tour[c])
                                ELSE DbSetInitialScene(st1, cur_tour[c], new_initial),
                                events)
                       ELSE EditTourAbort(c, st1)

ActAddConnection(c, start, target) ==
    /\ pc[c] = "fetched"
    /\ LET g == editor_state[c]
       IN  IF ~InsertConnectionOk(g, start) THEN NotFound(c)
           ELSE IF DbSaveConnectionOk
           THEN LET id == NewRowId(store, "connections")
                IN  Accepted(c, InsertConnection(g, start,
                                 [id |-> id, target |-> target, is_transition |-> TRUE]),
                             DbSaveConnection(store, cur_tour[c], start, target),
                             <<Ev("connection_added", id)>>)
           ELSE EditTourAbort(c, DbSaveConnection(store, cur_tour[c], start, target))

ActDeleteConnection(c, cid) ==
    /\ pc[c] = "fetched"
    /\ LET g == editor_state[c]
       IN  IF cid \notin DOMAIN g.connection_index THEN NotFound(c)
           ELSE \E deleted \in BOOLEAN :
                   IF deleted
                   THEN Accepted(c, RemoveConnection(g, cid),
                                 DbDeleteConnection(store, cid),
                                 <<Ev("connection_deleted", cid)>>)
                   ELSE EditTourAbort(c, store)

ActSetInitialScene(c, sid) ==
    /\ pc[c] = "fetched"
    /\ LET g == editor_state[c]
       IN  IF sid \notin DOMAIN g.scene_index THEN NotFound(c)
           ELSE \E pointed \in BOOLEAN :
                   IF pointed
                   THEN Accepted(c, SetInitial(g, sid),
                                 DbSetInitialScene(store, cur_tour[c], sid),
                                 <<Ev("success", sid)>>)
                   ELSE EditTourAbort(c, store)

\* SwapScene: only the asset reference of a known scene changes
ActSwapScene(c, sid) ==
    /\ pc[c] = "fetched"
    /\ LET g == editor_state[c]
       IN  IF sid \notin DOMAIN g.scene_index THEN NotFound(c)
           ELSE \E updated \in BOOLEAN :
                   IF updated
                   THEN Accepted(c, g, DbUpdateScene(store, sid),
                                 <<Ev("scene_swapped", sid)>>)
                   ELSE EditTourAbort(c, store)

\* EditConnection: new_target = Null when no target is supplied, other = some
\* other field is supplied
ActEditConnection(c, cid, new_target, other) ==
    /\ pc[c] = "fetched"
    /\ LET g == editor_state[c]
       IN  IF cid \notin DOMAIN g.connection_index THEN NotFound(c)
           ELSE IF ~DbUpdateConnectionOk(new_target, other)
           THEN EditTourAbort(c, store)
           ELSE \E updated \in BOOLEAN :
                   IF updated
                   THEN Accepted(c, MutateConnection(g, cid, new_target),
                                 DbUpdateConnection(store, cid, new_target),
                                 <<Ev("connection_edited", cid)>>)
                   ELSE EditTourAbort(c, store)

\* the commands reserved for future extension
PlaceholderKinds ==
    {"ChangeAddress", "AddFloorplan", "DeleteFloorplan", "AddFloorplanConnection"}

\* a placeholder that answers with an error
ActPlaceholderRejects(c, kind, arg) ==
    /\ pc[c] = "fetched"
    /\ kind \in PlaceholderKinds
    /\ NotFound(c)

\* a placeholder command: acknowledged, nothing validated, nothing written
ActPlaceholder(c, kind, arg) ==
    /\ pc[c] = "fetched"
    /\ kind \in PlaceholderKinds
    /\ Accepted(c, editor_state[c], store, <<Ev("acknowledged", Null)>>)

\* a closeup that is taken as added once its asset is saved
CloseupAcceptedEager(asset_ok, conn_ok) == asset_ok

\* AddCloseup: both writes must succeed
CloseupAccepted(asset_ok, conn_ok) == asset_ok /\ conn_ok

\* AddCloseup: save_closeup first, then save_connection from the parent
ActAddCloseup(c, parent) ==
    /\ pc[c] = "fetched"
    /\ LET g == editor_state[c]
           closeup == NewRowId(store, "assets")
       IN  IF ~InsertConnectionOk(g, parent) THEN NotFound(c)
           ELSE \E asset_ok \in BOOLEAN :
                LET st1 == IF asset_ok THEN DbSaveCloseup(store, cur_tour[c])
                           ELSE store
                    st2 == IF asset_ok
                           THEN DbSaveConnection(st1, cur_tour[c], parent, closeup)
                           ELSE st1
                    id == NewRowId(st1, "connections")
                IN  /\ asset_ok => closeup <= MaxAssetId
                    /\ IF CloseupAccepted(asset_ok, DbSaveConnectionOk)
                       THEN Accepted(c, InsertConnection(g, parent,
                                [id |-> id, target |-> closeup,
                                 is_transition |-> FALSE]),
                                st2, <<Ev("closeup_added", id)>>)
                       ELSE EditTourAbort(c, st2)

\* a save after which the handler takes the next message while the store-back
\* is still to come
SaveToDatabaseDetached(c) ==
    /\ pc[c] = "acted"
    /\ \E r \in {"ok", "err"} : save_result' = [save_result EXCEPT ![c] = r]
    /\ pc' = [pc EXCEPT ![c] = "client"]
    /\ UNCHANGED <<store, sessions, user_name, curr_user_name, cur_tour,
                   editor_state, out, evicted, lock, chan, auth,
                   active_connections, gvars, ivars>>

\* handle_action returned Ok: save_to_database is awaited, its result dropped
SaveToDatabase(c) ==
    /\ pc[c] = "acted"
    /\ \E r \in {"ok", "err"} : save_result' = [save_result EXCEPT ![c] = r]
    /\ pc' = [pc EXCEPT ![c] = "saved"]
    /\ UNCHANGED <<store, sessions, user_name, curr_user_name, cur_tour,
                   editor_state, out, evicted, lock, chan, auth,
                   active_connections, gvars, ivars>>

\* a store-back that is skipped when the connection's channel is closed
UpdateEditorSessionIfOpen(c) ==
    /\ pc[c] = "saved"
    /\ sessions' = IF chan[c] = "open"
                   THEN SessionsInsert(sessions,
                            SessionKey(user_name[c], cur_tour[c]), editor_state[c])
                   ELSE sessions
    /\ pc' = [pc EXCEPT ![c] = "client"]
    /\ editor_state' = [editor_state EXCEPT ![c] = NoState]
    /\ cur_tour' = [cur_tour EXCEPT ![c] = Null]
    /\ save_result' = [save_result EXCEPT ![c] = "none"]
    /\ UNCHANGED <<store, user_name, curr_user_name, out, evicted, lock, chan, auth,
                   active_connections, gvars, ivars>>

\* update_editor_session: the clone replaces the registry entry
UpdateEditorSession(c) ==
    /\ pc[c] = "saved"
    /\ sessions' = SessionsInsert(sessions, SessionKey(user_name[c], cur_tour[c]),
                                  editor_state[c])
    /\ pc' = [pc EXCEPT ![c] = "client"]
    /\ editor_state' = [editor_state EXCEPT ![c] = NoState]
    /\ cur_tour' = [cur_tour EXCEPT ![c] = Null]
    /\ save_result' = [save_result EXCEPT ![c] = "none"]
    /\ UNCHANGED <<store, user_name, curr_user_name, out, evicted, lock, chan, auth,
                   active_connections, gvars, ivars>>

\* Heartbeat: validate_session when the user carries a session token (token 0:
\* none), result dropped, no reply
Heartbeat(c) ==
    /\ pc[c] = "client"
    /\ \E token \in 0..MaxToken, done \in 0..2 :
          auth' = DbValidateSession(auth, user_name[c], token, done)
    /\ out' = [out EXCEPT ![c] = <<>>]
    /\ evicted' = [evicted EXCEPT ![c] = {}]
    /\ UNCHANGED <<store, sessions, pc, user_name, curr_user_name, cur_tour,
                   editor_state, save_result, lock, chan,
                   active_connections, gvars, ivars>>

(***************************************************************************)
(* The calls on user_sessions.  done = the number of the call's writing    *)
(* statements that had executed when it returned: 2 is Ok, less is Err.    *)
(***************************************************************************)
AuthFrame ==
    UNCHANGED <<store, sessions, pc, user_name, curr_user_name, cur_tour,
                editor_state, save_result, out, evicted, lock, chan,
                active_connections, gvars, ivars>>

\* login_user: the INSERT, then UPDATE users
AuthLogin(u, done) ==
    /\ auth.seq < MaxToken
    /\ auth' = IF done = 0 THEN auth ELSE DbLoginUser(auth, u)
    /\ AuthFrame

\* logout_user
AuthLogout(u, done) ==
    /\ auth' = DbLogoutUser(auth, u, done)
    /\ AuthFrame

\* validate_session
AuthValidate(u, token, done) ==
    /\ auth' = DbValidateSession(auth, u, token, done)
    /\ AuthFrame

\* a sweep that waits for the registry lock
AuthSweepUnderLock(done) ==
    /\ \A c \in Clients : lock[c] = "none"
    /\ auth' = DbCleanupOldSessions(auth, done)
    /\ AuthFrame

\* cleanup_old_sessions, as the periodic task of main calls it
AuthSweep(done) ==
    /\ auth' = DbCleanupOldSessions(auth, done)
    /\ AuthFrame

\* time passes
AuthTick ==
    /\ \E from \in Range(AgeOrder) :
          /\ auth' = AuthElapse(auth, from)
          /\ auth' # auth
    /\ AuthFrame

(***************************************************************************)
(* The decode boundary of handle_client: serde_json::from_str into         *)
(* ClientMessage, then the match on its result.  A text is described by    *)
(* its tag, by whether its data hold the fields of that variant, by the    *)
(* tour it names and by its editor_action (absent, a value that decodes,   *)
(* a value that does not).                                                 *)
(***************************************************************************)
ClientMessageTags ==
    {"Disconnect", "Login", "Register", "RestoreSession", "Heartbeat", "Quit",
     "Logout", "Help", "ShowTours", "CreateTour", "EditTour", "DeleteTour"}

Msg(tag, fields, tour_id, action) ==
    [tag |-> tag, fields |-> fields, tour_id |-> tour_id, action |-> action]

\* the tour matters to EditTour and DeleteTour, the editor_action to EditTour
Messages ==
    {Msg(tag, fields, 1, "none") :
        tag \in (ClientMessageTags \cup {"Unknown"}) \ {"EditTour", "DeleteTour"},
        fields \in BOOLEAN}
    \cup {Msg("DeleteTour", fields, t, "none") :
            fields \in BOOLEAN, t \in 1..MaxTourId}
    \cup {Msg("EditTour", fields, t, action) :
            fields \in BOOLEAN, t \in 1..MaxTourId,
            action \in {"none", "valid", "invalid"}}

\* a decode that lets an EditTour through whatever its editor_action holds
DecodesLenient(m) ==
    /\ m.tag \in ClientMessageTags
    /\ m.fields

\* serde_json::from_str::<ClientMessage> returns Ok
Decodes(m) ==
    /\ m.tag \in ClientMessageTags
    /\ m.fields
    /\ m.action # "invalid"

\* the match on the decoded message: one arm per handled variant, the fallback
\* arm for a decode error and for the variants without an arm
Receive(c, m) ==
    IF ~Decodes(m) THEN NotImplemented(c)
    ELSE CASE m.tag = "ShowTours" -> ShowTours(c)
           [] m.tag = "CreateTour" -> CreateTour(c)
           [] m.tag = "EditTour" ->
                IF m.action = "none" THEN OpenTourData(c, m.tour_id)
                ELSE EditTourFetch(c, m.tour_id)
           [] m.tag = "DeleteTour" -> DeleteTour(c, m.tour_id)
           [] m.tag = "Logout" -> LogoutUser(c)
           [] m.tag \in {"Disconnect", "Quit"} -> Disconnect(c)
           [] m.tag = "Heartbeat" -> Heartbeat(c)
           [] OTHER -> NotImplemented(c)

\* a login phase whose fallback arm carries out CreateTour for the nameless user
PleaseLogInCreates(c) ==
    /\ pc[c] = "login"
    /\ NewRowId(store, "tours") <= MaxTourId
    /\ store' = DbCreateTour(store, user_name[c])
    /\ out' = [out EXCEPT ![c] = <<Ev("please_log_in", Null)>>]
    /\ evicted' = [evicted EXCEPT ![c] = {}]
    /\ UNCHANGED <<sessions, pc, user_name, curr_user_name, cur_tour,
                   editor_state, save_result, lock, chan, auth,
                   active_connections, gvars, ivars>>

\* handle_login_phase, fallback arm: a text that is no ClientMessage, or a
\* message other than Login, Register, RestoreSession, Disconnect, Quit and
\* Heartbeat
PleaseLogIn(c) ==
    /\ pc[c] = "login"
    /\ out' = [out EXCEPT ![c] = <<Ev("please_log_in", Null)>>]
    /\ evicted' = [evicted EXCEPT ![c] = {}]
    /\ UNCHANGED <<store, sessions, pc, user_name, curr_user_name, cur_tour,
                   editor_state, save_result, lock, chan, auth,
                   active_connections, gvars, ivars>>

\* handle_login_phase, Heartbeat: ignored, nothing is sent
LoginHeartbeat(c) ==
    /\ pc[c] = "login"
    /\ out' = [out EXCEPT ![c] = <<>>]
    /\ evicted' = [evicted EXCEPT ![c] = {}]
    /\ UNCHANGED <<store, sessions, pc, user_name, curr_user_name, cur_tour,
                   editor_state, save_result, lock, chan, auth,
                   active_connections, gvars, ivars>>

\* the match of handle_login_phase on the decoded message; u is the user the
\* credentials or the session token of the message belong to
LoginReceive(c, m, u) ==
    IF ~Decodes(m) THEN PleaseLogIn(c)
    ELSE CASE m.tag \in {"Login", "Register", "RestoreSession"} ->
                LoginOk(c, u) \/ LoginFail(c)
           [] m.tag \in {"Disconnect", "Quit"} -> LoginPhaseEnd(c)
           [] m.tag = "Heartbeat" -> LoginHeartbeat(c)
           [] OTHER -> PleaseLogIn(c)

\* the connection's life cycle, for the users that log in
Lifecycle(c, users) ==
    \/ Connect(c)
    \/ \E u \in users : LoginOk(c, u)
    \/ LoginFail(c)
    \/ LoginPhaseEnd(c)
    \/ LogoutUser(c)
    \/ LogoutCleanup(c)
    \/ Disconnect(c)

\* the registry steps of an EditTour message, for the tours the messages name
Session(c, tours) ==
    \/ \E t \in tours : EditTourFetch(c, t)
    \/ LoadFromDatabase(c)
    \/ InsertSession(c)
    \/ SaveToDatabase(c)
    \/ UpdateEditorSession(c)

SceneCommands(c) ==
    \/ ActAddScene(c)
    \/ \E sid \in 1..MaxAssetId : ActDeleteScene(c, sid)

PointerCommands(c) ==
    \E sid \in 1..MaxAssetId : ActSetInitialScene(c, sid)

ConnectionCommands(c) ==
    \/ \E start, target \in 1..MaxAssetId : ActAddConnection(c, start, target)
    \/ \E cid \in 1..MaxConnId : ActDeleteConnection(c, cid)

EditCommands(c) ==
    \/ \E sid \in 1..MaxAssetId : ActSwapScene(c, sid)
    \/ \E cid \in 1..MaxConnId, new_target \in 0..MaxAssetId, other \in BOOLEAN :
          ActEditConnection(c, cid, new_target, other)
    \/ \E parent \in 1..MaxAssetId : ActAddCloseup(c, parent)

PlaceholderCommands(c) ==
    \E kind \in PlaceholderKinds, arg \in 0..MaxAssetId : ActPlaceholder(c, kind, arg)

\* the commands on whole tours and the messages without an arm
TourCommands(c, tours) ==
    \/ ShowTours(c)
    \/ Heartbeat(c)
    \/ \E t \in tours : DeleteTour(c, t)
    \/ NotImplemented(c)

\* the steps of an EditTour message without an editor action
OpenSession(c, tours) ==
    \/ \E t \in tours : OpenTourData(c, t)
    \/ OpenFetch(c)
    \/ OpenLoad(c)
    \/ OpenInsert(c)

\* every message of one connection
Handlers(c, users, tours) ==
    \/ Lifecycle(c, users)
    \/ CreateTour(c)
    \/ Session(c, tours)
    \/ SceneCommands(c)
    \/ PointerCommands(c)
    \/ ConnectionCommands(c)

\* Spec: one connection, any user, any tour
Next == Handlers(1, Users, 1..MaxTourId)

Spec == Init /\ [][Next]_vars

\* SpecPair: two connections of user a adding and deleting scenes of the
\* stored tour 1
PairInit ==
    /\ store = SeedStore
    /\ HandlerInit
    /\ graph = NoState
    /\ last = NoCall
    /\ ImporterIdle

PairNext ==
    \E c \in Clients :
        \/ Lifecycle(c, {UserA})
        \/ Session(c, {1})
        \/ SceneCommands(c)

SpecPair == PairInit /\ [][PairNext]_vars

\* SpecTour: one connection of user a editing the stored tour 1 with every
\* command
TourNext ==
    \/ Lifecycle(1, {UserA})
    \/ Session(1, {1})
    \/ SceneCommands(1)
    \/ PointerCommands(1)
    \/ ConnectionCommands(1)
    \/ EditCommands(1)

SpecTour == PairInit /\ [][TourNext]_vars

\* SpecLogout: two connections, any user, any tour, creating tours and
\* repointing their initial scene
LogoutNext ==
    \E c \in Clients :
        \/ Lifecycle(c, Users)
        \/ CreateTour(c)
        \/ Session(c, 1..MaxTourId)
        \/ PointerCommands(c)

SpecLogout == Init /\ [][LogoutNext]_vars

\* SpecClient: connection 1 of user a sends every logged-in message (the
\* editor action being SetInitialScene) while connection 2 of user a_b logs
\* in, lists the tours, asks for tour 1, tries to delete it and leaves
ClientNext ==
    \/ Lifecycle(1, {UserA})
    \/ CreateTour(1)
    \/ TourCommands(1, {1, 2})
    \/ OpenSession(1, {1, 2})
    \/ Session(1, {1, 2})
    \/ PointerCommands(1)
    \/ Lifecycle(2, {UserB})
    \/ ShowTours(2)
    \/ OpenTourData(2, 1)
    \/ DeleteTour(2, 1)

SpecClient == PairInit /\ [][ClientNext]_vars

\* SpecDrop: one connection that edits the scenes of tour 1 and whose outbound
\* channel may close at any moment
DropNext ==
    \/ Connect(1)
    \/ LoginOk(1, UserA)
    \/ Session(1, {1})
    \/ SceneCommands(1)
    \/ SendTaskEnds(1)
    \/ Disconnect(1)

SpecDrop == PairInit /\ [][DropNext]_vars

\* SpecPlaceholder: one connection that edits the scenes of tour 1 and sends
\* the placeholder commands
PlaceholderNext ==
    \/ Connect(1)
    \/ LoginOk(1, UserA)
    \/ Session(1, {1})
    \/ SceneCommands(1)
    \/ PlaceholderCommands(1)
    \/ LogoutUser(1)
    \/ LogoutCleanup(1)

SpecPlaceholder == PairInit /\ [][PlaceholderNext]_vars

\* SpecDecode: one connection whose every text goes through the decode and the
\* match of handle_client, with the later steps of the EditTour messages
DecodeNext ==
    \/ Connect(1)
    \/ \E m \in Messages : LoginReceive(1, m, UserA)
    \/ LogoutCleanup(1)
    \/ \E m \in Messages : Receive(1, m)
    \/ OpenFetch(1)
    \/ OpenLoad(1)
    \/ OpenInsert(1)
    \/ LoadFromDatabase(1)
    \/ InsertSession(1)
    \/ PointerCommands(1)
    \/ SaveToDatabase(1)
    \/ UpdateEditorSession(1)

SpecDecode == PairInit /\ [][DecodeNext]_vars

\* SpecAuth: the calls on user_sessions for both users, and time
AuthNext ==
    \/ \E u \in Users, done \in 0..2 : AuthLogin(u, done)
    \/ \E u \in Users, done \in 0..2 : AuthLogout(u, done)
    \/ \E u \in Users, token \in 1..MaxToken, done \in 0..2 :
          AuthValidate(u, token, done)
    \/ \E done \in 0..2 : AuthSweep(done)
    \/ AuthTick

SpecAuth == PairInit /\ [][AuthNext]_vars

(***************************************************************************)
(* The lock of EDITOR_SESSIONS (tokio RwLock), one step per acquisition     *)
(* and one per release.  lock[c] is the guard connection c holds.          *)
(***************************************************************************)
\* EDITOR_SESSIONS.read().await returns when no writer holds the lock
NoWriter(c) == \A d \in Clients \ {c} : lock[d] # "write"

\* EDITOR_SESSIONS.write().await returns when nobody else holds the lock
NoHolder(c) == \A d \in Clients \ {c} : lock[d] = "none"

\* a guard dropped at the end of its scope
Release(lk, c) == [lk EXCEPT ![c] = "none"]

\* a read guard that lives on to the end of the function when the key is missing
AfterLookupKeepsGuard(lk, c, hit) == IF hit THEN Release(lk, c) ELSE lk

\* sessions_read lives in the block of the lookup: dropped at the return of a
\* hit and at the end of the block on a miss
AfterLookup(lk, c, hit) == Release(lk, c)

\* get_or_create_editor_session: sessions_read is acquired
LookupLock(c, t) ==
    /\ pc[c] = "client"
    /\ NoWriter(c)
    /\ lock' = [lock EXCEPT ![c] = "read"]
    /\ pc' = [pc EXCEPT ![c] = "lookup"]
    /\ cur_tour' = [cur_tour EXCEPT ![c] = t]
    /\ out' = [out EXCEPT ![c] = <<>>]
    /\ evicted' = [evicted EXCEPT ![c] = {}]
    /\ UNCHANGED <<store, sessions, user_name, curr_user_name, editor_state,
                   save_result, chan, auth, active_connections, gvars, ivars>>

\* the lookup under sessions_read: a hit returns a clone, a miss goes on to
\* EditorState::new and load_from_database
LookupUnlock(c) ==
    /\ pc[c] = "lookup"
    /\ LET key == SessionKey(user_name[c], cur_tour[c])
           hit == key \in DOMAIN sessions
       IN  /\ editor_state' = [editor_state EXCEPT ![c] =
                  IF hit THEN sessions[key]
                  ELSE EditorStateNew(cur_tour[c], user_name[c])]
           /\ pc' = [pc EXCEPT ![c] = IF hit THEN "fetched" ELSE "loading"]
           /\ lock' = AfterLookup(lock, c, hit)
    /\ UNCHANGED <<store, sessions, user_name, curr_user_name, cur_tour,
                   save_result, out, evicted, chan, auth,
                   active_connections, gvars, ivars>>

\* get_or_create_editor_session after the load: sessions_write is acquired
InsertLock(c) ==
    /\ pc[c] = "loaded"
    /\ NoHolder(c)
    /\ lock' = [lock EXCEPT ![c] = "write"]
    /\ pc' = [pc EXCEPT ![c] = "inserting"]
    /\ UNCHANGED <<store, sessions, user_name, curr_user_name, cur_tour,
                   editor_state, save_result, out, evicted, chan, auth,
                   active_connections, gvars, ivars>>

\* sessions.insert, then the function returns and sessions_write is dropped
InsertUnlock(c) ==
    /\ pc[c] = "inserting"
    /\ sessions' = SessionsInsert(sessions, SessionKey(user_name[c], cur_tour[c]),
                                  editor_state[c])
    /\ pc' = [pc EXCEPT ![c] = "fetched"]
    /\ lock' = Release(lock, c)
    /\ UNCHANGED <<store, user_name, curr_user_name, cur_tour, editor_state,
                   save_result, out, evicted, chan, auth,
                   active_connections, gvars, ivars>>

\* update_editor_session: sessions_write is acquired
UpdateLock(c) ==
    /\ pc[c] = "saved"
    /\ NoHolder(c)
    /\ lock' = [lock EXCEPT ![c] = "write"]
    /\ pc' = [pc EXCEPT ![c] = "updating"]
    /\ UNCHANGED <<store, sessions, user_name, curr_user_name, cur_tour,
                   editor_state, save_result, out, evicted, chan, auth,
                   active_connections, gvars, ivars>>

\* sessions.insert, then the function returns and sessions_write is dropped
UpdateUnlock(c) ==
    /\ pc[c] = "updating"
    /\ sessions' = SessionsInsert(sessions, SessionKey(user_name[c], cur_tour[c]),
                                  editor_state[c])
    /\ pc' = [pc EXCEPT ![c] = "client"]
    /\ editor_state' = [editor_state EXCEPT ![c] = NoState]
    /\ cur_tour' = [cur_tour EXCEPT ![c] = Null]
    /\ save_result' = [save_result EXCEPT ![c] = "none"]
    /\ lock' = Release(lock, c)
    /\ UNCHANGED <<store, user_name, curr_user_name, out, evicted, chan, auth,
                   active_connections, gvars, ivars>>

\* cleanup_user_editor_sessions: sessions_write is acquired
CleanupLock(c) ==
    /\ pc[c] = "logging_out"
    /\ NoHolder(c)
    /\ lock' = [lock EXCEPT ![c] = "write"]
    /\ pc' = [pc EXCEPT ![c] = "cleaning"]
    /\ UNCHANGED <<store, sessions, user_name, curr_user_name, cur_tour,
                   editor_state, save_result, out, evicted, chan, auth,
                   active_connections, gvars, ivars>>

\* sessions.retain, sessions_write is dropped, the Logout reply is sent
CleanupUnlock(c) ==
    /\ pc[c] = "cleaning"
    /\ sessions' = CleanupUserEditorSessions(sessions, user_name[c])
    /\ evicted' = [evicted EXCEPT ![c] = DOMAIN sessions \ DOMAIN sessions']
    /\ out' = [out EXCEPT ![c] = <<Ev("logged_out", Null)>>]
    /\ pc' = [pc EXCEPT ![c] = "login"]
    /\ user_name' = [user_name EXCEPT ![c] = NoUser]
    /\ lock' = Release(lock, c)
    /\ UNCHANGED <<store, curr_user_name, cur_tour, editor_state, save_result,
                   chan, auth, active_connections, gvars, ivars>>

\* SpecLock: two connections of user a on the stored tour 1, every registry
\* access split at its lock acquisition
\* the steps of one connection in SpecLock
LockSteps(c) ==
    \/ Connect(c)
    \/ LoginOk(c, UserA)
    \/ LoginFail(c)
    \/ LoginPhaseEnd(c)
    \/ LogoutUser(c)
    \/ CleanupLock(c)
    \/ CleanupUnlock(c)
    \/ Disconnect(c)
    \/ LookupLock(c, 1)
    \/ LookupUnlock(c)
    \/ LoadFromDatabase(c)
    \/ InsertLock(c)
    \/ InsertUnlock(c)
    \/ PointerCommands(c)
    \/ SaveToDatabase(c)
    \/ UpdateLock(c)
    \/ UpdateUnlock(c)

LockNext == \E c \in Clients : LockSteps(c)

SpecLock == PairInit /\ [][LockNext]_vars

\* SpecSweep: connection 1 with every registry access split at its lock
\* acquisition, the sessions user a logs in with, time, and the periodic sweep
SweepNext ==
    \/ LockSteps(1)
    \/ \E done \in 0..2 : AuthLogin(UserA, done)
    \/ \E done \in 0..2 : AuthSweep(done)
    \/ AuthTick

SpecSweep == PairInit /\ [][SweepNext]_vars

(***************************************************************************)
(* The Tour Graph as a data structure: SpecGraph applies the mutation      *)
(* methods to one graph, with the ids a gateway could issue.               *)
(*   last = the last call: [op, arg, ret, loc, was_initial]                *)
(***************************************************************************)
GraphInit ==
    /\ graph = EditorStateNew(1, UserA)
    /\ last = NoCall
    /\ store = EmptyStore
    /\ HandlerInit
    /\ ImporterIdle

GInsertScene ==
    \E sid \in (1..MaxSceneId) \ SceneIds(graph) :
        /\ graph' = InsertScene(graph, sid)
        /\ last' = [NoCall EXCEPT !.op = "insert_scene", !.arg = sid]
        /\ UNCHANGED <<hvars, ivars>>

GRemoveScene ==
    \E sid \in DOMAIN graph.scene_index :
    \E new_initial \in NewInitialChoices(graph, sid) :
        /\ graph' = RemoveScene(graph, sid, new_initial)
        /\ last' = [NoCall EXCEPT !.op = "remove_scene", !.arg = sid,
                                  !.ret = CascadeIds(graph, sid),
                                  !.was_initial = (graph.initial_scene = sid)]
        /\ UNCHANGED <<hvars, ivars>>

GInsertConnection ==
    \E owner \in 1..MaxSceneId :
    \E cid \in (1..MaxConnId) \ DOMAIN graph.connection_index :
    \E target \in 1..MaxSceneId :
        /\ graph' = InsertConnection(graph, owner,
                        [id |-> cid, target |-> target, is_transition |-> TRUE])
        /\ last' = [NoCall EXCEPT !.op = "insert_connection", !.arg = cid,
                                  !.ret = <<InsertConnectionOk(graph, owner)>>]
        /\ UNCHANGED <<hvars, ivars>>

GRemoveConnection ==
    \E cid \in 1..MaxConnId :
        /\ graph' = RemoveConnection(graph, cid)
        /\ last' = [NoCall EXCEPT
                        !.op = "remove_connection", !.arg = cid,
                        !.ret = <<cid \in DOMAIN graph.connection_index>>,
                        !.loc = IF cid \in DOMAIN graph.connection_index
                                THEN graph.connection_index[cid] ELSE <<>>]
        /\ UNCHANGED <<hvars, ivars>>

GSetInitial ==
    \E sid \in DOMAIN graph.scene_index :
        /\ graph' = SetInitial(graph, sid)
        /\ last' = [NoCall EXCEPT !.op = "set_initial_scene", !.arg = sid]
        /\ UNCHANGED <<hvars, ivars>>

GraphNext ==
    \/ GInsertScene
    \/ GRemoveScene
    \/ GInsertConnection
    \/ GRemoveConnection
    \/ GSetInitial

SpecGraph == GraphInit /\ [][GraphNext]_vars

(***************************************************************************)
(* Invariant I1 on one graph: both indices resolve to live entities.       *)
(***************************************************************************)
IndexConsistent(g) ==
    /\ \A cid \in DOMAIN g.connection_index :
          LET loc == g.connection_index[cid]
          IN  \E i \in DOMAIN g.scenes :
                  /\ g.scenes[i].id = loc[1]
                  /\ loc[2] \in DOMAIN g.scenes[i].connections
                  /\ g.scenes[i].connections[loc[2]].id = cid
    /\ \A sid \in DOMAIN g.scene_index :
          /\ g.scene_index[sid] \in DOMAIN g.scenes
          /\ g.scenes[g.scene_index[sid]].id = sid

\* C1: after every AddScene / DeleteScene / AddConnection / DeleteConnection
\* step, every id of the connection index maps to the (owner, position) where a
\* connection with that id sits, every id of the scene index maps to the
\* position of that scene, and the id an operation removed is in neither index.
C1_IndexConsistency ==
    /\ IndexConsistent(graph)
    /\ (last.op = "remove_scene") =>
          /\ last.arg \notin DOMAIN graph.scene_index
          /\ \A cid \in Range(last.ret) : cid \notin DOMAIN graph.connection_index
    /\ (last.op = "remove_connection" /\ last.ret = <<TRUE>>) =>
          last.arg \notin DOMAIN graph.connection_index

\* a connection was removed from in front of another one of the same scene,
\* whose position therefore shifted
C1_Witness ==
    /\ last.op = "remove_connection"
    /\ last.ret = <<TRUE>>
    /\ \E cid \in DOMAIN graph.connection_index :
          /\ graph.connection_index[cid][1] = last.loc[1]
          /\ graph.connection_index[cid][2] >= last.loc[2]

\* C3: the initial-scene pointer is null or names a scene of the collection;
\* removing the initial scene leaves it null exactly when no scene remains.
C3_InitialSceneValid ==
    /\ graph.initial_scene = Null \/ graph.initial_scene \in SceneIds(graph)
    /\ (last.op = "remove_scene" /\ last.was_initial) =>
          /\ graph.initial_scene # last.arg
          /\ (graph.scenes = <<>>) <=> (graph.initial_scene = Null)

\* the initial scene was removed while another scene remained
C3_Witness ==
    /\ last.op = "remove_scene"
    /\ last.was_initial
    /\ graph.initial_scene \in SceneIds(graph)

(***************************************************************************)
(* Claims on the handlers.                                                 *)
(***************************************************************************)
KeyOf(c) == SessionKey(user_name[c], cur_tour[c])

\* no connection of graph g is owned by scene sid or targets it
NoReference(g, sid) ==
    /\ sid \notin SceneIds(g)
    /\ \A i \in DOMAIN g.scenes :
          \A j \in DOMAIN g.scenes[i].connections :
              g.scenes[i].connections[j].target # sid
    /\ \A cid \in DOMAIN g.connection_index : g.connection_index[cid][1] # sid

\* no row of the store starts or ends at scene sid, and the scene row is gone
NoRow(st, sid) ==
    /\ sid \notin DOMAIN st.assets
    /\ \A r \in DOMAIN st.connections :
          /\ st.connections[r].start_id # sid
          /\ st.connections[r].end_id # sid

\* C2: once DeleteScene(S) has succeeded, neither the Tour Graph it acted on
\* nor the store holds a connection owned by S or targeting S, nor S itself.
C2_CascadeComplete ==
    \A c \in Clients : \A sid \in 1..MaxAssetId :
        (/\ pc[c] \in {"acted", "saved"}
         /\ Ev("scene_deleted", sid) \in Range(out[c]))
        => /\ NoReference(editor_state[c], sid)
           /\ NoRow(store, sid)

\* a DeleteScene that cascaded to a connection of another scene
C2_Witness ==
    \E c \in Clients : \E sid \in 1..MaxAssetId :
        /\ pc[c] = "acted"
        /\ Head(out[c]) = Ev("scene_deleted", sid)
        /\ Len(out[c]) = 3
        /\ editor_state[c].scenes # <<>>

\* C4: the persisted initial-scene pointer of every tour is null or the id of
\* a scene row of that tour.
C4_PersistedPointerValid ==
    \A t \in DOMAIN store.tours :
        LET p == store.tours[t].initial_scene_id
        IN  \/ p = Null
            \/ /\ p \in DOMAIN store.assets
               /\ store.assets[p].tour_id = t
               /\ store.assets[p].is_scene

\* C5: when a persistence call of an editor command has failed, the command
\* ends with the registry as it was and with an error event sent.
C5_FailedWriteLeavesRegistry ==
    [][\A c \in Clients :
          (/\ pc'[c] = "client"
           /\ \/ pc[c] \in {"loading", "fetched"}
              \/ pc[c] = "saved" /\ save_result[c] = "err")
          => /\ sessions' = sessions
             /\ ErrorEv \in Range(out'[c])]_vars

\* C6: two connections never both construct the graph of one key: at most one
\* is between its registry miss and its registry insert.
C6_SingleConstruction ==
    \A c1, c2 \in Clients :
        (/\ c1 # c2
         /\ pc[c1] \in {"loading", "loaded"}
         /\ pc[c2] \in {"loading", "loaded"})
        => KeyOf(c1) # KeyOf(c2)

\* C7: no completed mutation is lost: the store-back of a command never drops
\* from the registry entry a scene that this command did not itself delete.
C7_NoLostMutation ==
    [][\A c \in Clients :
          (/\ pc[c] = "saved"
           /\ pc'[c] = "client"
           /\ KeyOf(c) \in DOMAIN sessions)
          => \A sid \in SceneIds(sessions[KeyOf(c)]) :
                \/ sid \in SceneIds(sessions'[KeyOf(c)])
                \/ Ev("scene_deleted", sid) \in Range(out[c])]_vars

\* C8: single writer per key: no two connections are both between their
\* registry fetch and their registry store-back for the same key.
C8_SingleWriter ==
    \A c1, c2 \in Clients :
        (/\ c1 # c2
         /\ pc[c1] \in {"fetched", "acted", "saved"}
         /\ pc[c2] \in {"fetched", "acted", "saved"})
        => KeyOf(c1) # KeyOf(c2)

\* C9: when the Logout handler finishes, the registry holds no entry of the
\* user who logged out, for any tour.
C9_LogoutEvictsAll ==
    [][\A c \in Clients :
          (pc[c] = "logging_out" /\ pc'[c] = "login")
          => \A t \in 1..MaxTourId :
                SessionKey(user_name[c], t) \notin DOMAIN sessions']_vars

\* a Logout that evicted the entries of two tours
C9_Witness ==
    \E c \in Clients :
        /\ pc[c] = "login"
        /\ out[c] = <<Ev("logged_out", Null)>>
        /\ Cardinality(evicted[c]) >= 2

\* C10: when the connection of a logged-in user ends, the registry holds no
\* entry of that user once the connection handler has terminated.
C10_DisconnectEvicts ==
    [][\A c \in Clients :
          (pc[c] = "client" /\ pc'[c] = "closed")
          => \A t \in 1..MaxTourId :
                SessionKey(user_name[c], t) \notin DOMAIN sessions']_vars

\* the events that confirm an accepted command
SuccessTypes == {"scene_added", "scene_swapped", "scene_deleted",
                 "connection_added", "connection_edited", "connection_deleted",
                 "closeup_added", "success"}

\* one confirmation, followed by cascade events only after a scene_deleted
OneSuccess(evs) ==
    /\ evs # <<>>
    /\ evs[1].type \in SuccessTypes
    /\ \A i \in 2..Len(evs) :
          /\ evs[1].type = "scene_deleted"
          /\ evs[i].type = "connection_deleted"

\* the step of connection c that ends the handling of an EditTour message
CommandEnds(c) ==
    /\ pc[c] \in {"loading", "fetched", "saved"}
    /\ pc'[c] = "client"

AllConnIds(g) == UNION {ConnIds(g.scenes[i]) : i \in DOMAIN g.scenes}

\* the step is a command of c that names a scene the graph does not hold
UnknownSceneCommand(c) ==
    \E sid \in (1..MaxAssetId) \ SceneIds(editor_state[c]) :
        \/ ActDeleteScene(c, sid)
        \/ ActSwapScene(c, sid)
        \/ ActSetInitialScene(c, sid)
        \/ ActAddCloseup(c, sid)
        \/ \E target \in 1..MaxAssetId : ActAddConnection(c, sid, target)

\* the step is a command of c that names a connection the graph does not hold
UnknownConnectionCommand(c) ==
    \E cid \in (1..MaxConnId) \ AllConnIds(editor_state[c]) :
        \/ ActDeleteConnection(c, cid)
        \/ \E new_target \in 0..MaxAssetId, other \in BOOLEAN :
              ActEditConnection(c, cid, new_target, other)

AwaitsGateway(c) ==
    pc[c] \in {"login", "client", "loading", "fetched", "acted", "logging_out"}

\* C13: a connection that awaits a Persistence Gateway call holds neither the
\* read nor the write guard of the session registry.
C13_NoLockAcrossGateway ==
    \A c \in Clients : AwaitsGateway(c) => lock[c] = "none"

\* one connection loads a tour while the other holds the write guard
C13_Witness ==
    \E c, d \in Clients :
        /\ pc[c] = "loading"
        /\ lock[d] = "write"

\* connection c takes a message from its socket and starts to handle it
TakesMessage(c) ==
    \/ \E t \in 1..MaxTourId : EditTourFetch(c, t)
    \/ \E t \in 1..MaxTourId : OpenTourData(c, t)
    \/ \E t \in 1..MaxTourId : DeleteTour(c, t)
    \/ ShowTours(c)
    \/ Heartbeat(c)
    \/ NotImplemented(c)
    \/ CreateTour(c)
    \/ LogoutUser(c)
    \/ Disconnect(c)

\* C14: while a command of a connection is between its registry fetch and the
\* end of its store-back, that connection handles no other message: the next
\* message is taken only when the previous command has completed.
C14_OneCommandAtATime ==
    \A c \in Clients :
        (cur_tour[c] # Null \/ editor_state[c] # NoState \/ save_result[c] # "none")
        => ~ENABLED TakesMessage(c)

\* the second command of a connection has fetched the graph that holds the
\* scene its first command added
C14_Witness ==
    \E c \in Clients :
        /\ pc[c] = "fetched"
        /\ out[c] = <<>>
        /\ NewRowId(SeedStore, "assets") \in SceneIds(editor_state[c])

\* ids of the connections of g that scene sid owns or that target it
TouchingIds(g, sid) ==
    UNION {{g.scenes[i].connections[j].id : j \in
                {k \in DOMAIN g.scenes[i].connections :
                    \/ g.scenes[i].id = sid
                    \/ g.scenes[i].connections[k].target = sid}} :
           i \in DOMAIN g.scenes}

\* C15: an accepted DeleteScene(S) sends scene_deleted{S} first and then one
\* connection_deleted per connection the cascade removed (owned by S or
\* targeting S), none twice and none for a connection that stays; the ids are
\* the list remove_scene returns.
C15_CascadeEvents ==
    [][\A c \in Clients : \A sid \in 1..MaxAssetId :
          (/\ pc[c] = "fetched"
           /\ pc'[c] = "acted"
           /\ sid \in SceneIds(editor_state[c]) \ SceneIds(editor_state'[c])
           /\ ActDeleteScene(c, sid))
          => LET before == editor_state[c]
                 removed == AllConnIds(before) \ AllConnIds(editor_state'[c])
                 evs == out'[c]
                 ids == [i \in 1..(Len(evs) - 1) |-> evs[i + 1].id]
             IN  /\ evs # <<>>
                 /\ evs[1] = Ev("scene_deleted", sid)
                 /\ \A i \in 2..Len(evs) : evs[i].type = "connection_deleted"
                 /\ Len(ids) = Cardinality(removed)
                 /\ Range(ids) = removed
                 /\ removed = TouchingIds(before, sid)
                 /\ ids = CascadeIds(before, sid)]_vars

\* DeleteScene(2) on the stored tour: connection 2 is owned by scene 2 and
\* connection 1 of scene 1 targets it
C15_Witness ==
    \E c \in Clients :
        /\ pc[c] = "acted"
        /\ out[c] = <<Ev("scene_deleted", 2), Ev("connection_deleted", 2),
                      Ev("connection_deleted", 1)>>

\* C16: an accepted AddScene appends and indexes one scene whose id is that of
\* the scene row the gateway created in the same command; the scene becomes
\* the initial scene when the graph was empty and the pointer stays otherwise;
\* when the command fails nothing is added to the graph of the registry.
C16_AddScene ==
    [][\A c \in Clients :
          (pc[c] = "fetched" /\ ActAddScene(c))
          => LET before == editor_state[c]
                 after == editor_state'[c]
             IN  IF pc'[c] = "acted"
                 THEN \E id \in DOMAIN store'.assets \ DOMAIN store.assets :
                        /\ store'.assets[id] =
                              [tour_id |-> cur_tour[c], is_scene |-> TRUE]
                        /\ after.scenes =
                              Append(before.scenes, [id |-> id, connections |-> <<>>])
                        /\ after.scene_index =
                              (id :> Len(after.scenes)) @@ before.scene_index
                        /\ id \notin DOMAIN before.scene_index
                        /\ after.connection_index = before.connection_index
                        /\ after.initial_scene =
                              IF before.scenes = <<>> THEN id
                              ELSE before.initial_scene
                        /\ out'[c] = <<Ev("scene_added", id)>>
                 ELSE /\ pc'[c] = "client"
                      /\ sessions' = sessions]_vars

\* AddScene on a graph whose scenes had all been deleted: the new scene is
\* the initial scene
C16_Witness ==
    \E c \in Clients :
        /\ pc[c] = "acted"
        /\ Len(out[c]) = 1
        /\ out[c][1].type = "scene_added"
        /\ Len(editor_state[c].scenes) = 1
        /\ editor_state[c].initial_scene = out[c][1].id

C18_AddConnection ==
    [][\A c \in Clients : \A start, target \in 1..MaxAssetId :
          (pc[c] = "fetched" /\ ActAddConnection(c, start, target))
          => LET g == editor_state[c]
                 h == editor_state'[c]
             IN  IF start \notin SceneIds(g)
                 THEN /\ h = g
                      /\ out'[c] = <<ErrorEv>>
                 ELSE LET i == g.scene_index[start]
                          n == Len(g.scenes[i].connections)
                      IN  /\ pc'[c] = "acted"
                          /\ Len(h.scenes) = Len(g.scenes)
                          /\ Len(h.scenes[i].connections) = n + 1
                          /\ h.scenes[i].connections[n + 1].target = target
                          /\ h.connection_index[h.scenes[i].connections[n + 1].id]
                               = <<i, n + 1>>]_vars

\* the places <<scene position, list position>> where graph g holds a connection
ConnPlaces(g) ==
    {p \in (DOMAIN g.scenes) \X (1..MaxConnId + 1) :
        p[2] \in DOMAIN g.scenes[p[1]].connections}

ConnAt(g, p) == g.scenes[p[1]].connections[p[2]]

UniqueConnections(g) ==
    /\ \A p, q \in ConnPlaces(g) :
          (ConnAt(g, p).id # Null /\ ConnAt(g, p).id = ConnAt(g, q).id) => p = q
    /\ \A cid \in AllConnIds(g) :
          Cardinality({i \in DOMAIN g.scenes :
                          \E j \in DOMAIN g.scenes[i].connections :
                              g.scenes[i].connections[j].id = cid}) = 1

\* C19: in every reachable state no two connections of a Tour Graph have the
\* same non-zero id, and every connection is in the list of exactly one scene.
C19_UniqueConnectionIds ==
    /\ UniqueConnections(graph)
    /\ \A c \in Clients : UniqueConnections(editor_state[c])
    /\ \A k \in DOMAIN sessions : UniqueConnections(sessions[k])

\* two scenes each own one connection, the two ids differ
C19_Witness ==
    /\ Len(graph.scenes) = 2
    /\ Len(graph.scenes[1].connections) = 1
    /\ Len(graph.scenes[2].connections) = 1
    /\ last.op = "insert_connection"

\* C20: a gateway call is all-or-nothing: when delete_scene returns an error
\* (the DeleteScene command ends with the scene row still in the store), the
\* store is exactly as it was before the call.
C20_DeleteSceneAllOrNothing ==
    [][\A c \in Clients : \A sid \in 1..MaxAssetId :
          (/\ pc[c] = "fetched"
           /\ sid \in SceneIds(editor_state[c])
           /\ ActDeleteScene(c, sid)
           /\ pc'[c] = "client"
           /\ sid \in DOMAIN store'.assets)
          => store' = store]_vars

\* connection c is in handle_client
LoggedIn(c) == pc[c] \notin {"new", "login", "closed"}

\* the replies that report a failed or refused command
ErrorTypes == {"error", "create_failed", "delete_failed", "tour_not_found",
               "tours_failed"}

\* the step sends an error reply on connection c
ReportsError(c) ==
    /\ out'[c] # out[c]
    /\ out'[c] # <<>>
    /\ out'[c][Len(out'[c])].type \in ErrorTypes

\* C21: a failed or refused command of a logged-in connection is reported on
\* that connection only and leaves it logged in as the same user, ready for
\* its next message; a logged-in connection ends only by Disconnect, Quit or
\* a transport error, and returns to the login phase only by Logout.
C21_ErrorsKeepSession ==
    /\ [][\A c \in Clients :
            (LoggedIn(c) /\ ReportsError(c))
            => /\ pc'[c] \in {"client", "acted"}
               /\ user_name'[c] = user_name[c]
               /\ \A d \in Clients \ {c} : out'[d] = out[d] /\ pc'[d] = pc[d]]_vars
    /\ [][\A c \in Clients :
            /\ (LoggedIn(c) /\ pc'[c] = "closed") => Disconnect(c)
            /\ (LoggedIn(c) /\ pc'[c] = "login")
               => pc[c] \in {"logging_out", "cleaning"}]_vars
    /\ [](\A c \in Clients : pc[c] = "client" => ENABLED TakesMessage(c))

\* connection 1 has been told that its DeleteTour failed, after the tour's
\* connection rows were deleted, and is back at its message loop while
\* connection 2 is logged in
C21_Witness ==
    /\ pc[1] = "client"
    /\ out[1] = <<Ev("delete_failed", 1)>>
    /\ store.connections = EmptyMap
    /\ 1 \in DOMAIN store.tours
    /\ pc[2] = "client"
    /\ out[2] # <<>>

\* C29: when logout_user(u) has returned Ok, validate_session(u, t) finds no
\* token t, and the rows of the other users are as they were; a deactivated
\* token is never activated again and a new row is always a new token, so
\* the tokens issued before the logout stay invalid.
C29_LogoutDeactivatesAll ==
    /\ [][\A u \in Users :
            AuthLogout(u, 2)
            => /\ \A t \in 1..MaxToken : ~ValidateSession(auth', u, t)
               /\ \A t \in DOMAIN auth.rows :
                     auth.rows[t].username # u
                     => t \in DOMAIN auth'.rows /\ auth'.rows[t] = auth.rows[t]]_vars
    /\ [][/\ \A t \in DOMAIN auth.rows \cap DOMAIN auth'.rows :
                ~auth.rows[t].is_active => ~auth'.rows[t].is_active
          /\ \A t \in DOMAIN auth'.rows \ DOMAIN auth.rows : t > auth.seq]_vars

\* user a has been logged out with two sessions, both now inactive though
\* fresh, while the session of user a_b is still active
C29_Witness ==
    /\ Cardinality({t \in DOMAIN auth.rows : auth.rows[t].username = UserA}) = 2
    /\ \A t \in DOMAIN auth.rows :
          auth.rows[t].username = UserA
          => ~auth.rows[t].is_active /\ auth.rows[t].age = "fresh"
    /\ ActiveTokens(auth, UserB) # {}

\* C25: the periodic sweep of user_sessions can run whichever guard of the
\* registry is held, and a run of it leaves the registry, its lock, every
\* connection's Tour Graph and the tour tables as they were.
C25_SweepApartFromRegistry ==
    /\ [](ENABLED AuthSweep(2))
    /\ [][\A done \in 0..2 :
            AuthSweep(done)
            => /\ sessions' = sessions
               /\ lock' = lock
               /\ editor_state' = editor_state
               /\ store' = store
               /\ pc' = pc]_vars

\* the sweep has deactivated a session idle for ten minutes, and connection 1
\* holds the write guard of the registry
C25_Witness ==
    /\ lock[1] = "write"
    /\ sessions # EmptyMap
    /\ \E t \in DOMAIN auth.rows :
          ~auth.rows[t].is_active /\ auth.rows[t].age = "idle10"

\* a text with an unknown action tag, without the fields its tag requires, or
\* with an editor_action that is no editor action
Malformed(m) ==
    \/ m.tag \notin ClientMessageTags
    \/ ~m.fields
    \/ m.action = "invalid"

\* C22: a message that cannot be decoded never reaches the command processor:
\* handling it looks up and creates no registry entry, persists nothing, changes
\* no Tour Graph and leaves the connection where it was, with the one reply of
\* the fallback arm.  (Stated contrapositively: a step that does any of these
\* is not the handling of a malformed message.)
C22_MalformedStopsAtDecode ==
    [][\A c \in Clients :
          (/\ pc[c] = "client"
           /\ ~(/\ sessions' = sessions
                /\ store' = store
                /\ auth' = auth
                /\ editor_state' = editor_state
                /\ cur_tour' = cur_tour
                /\ save_result' = save_result
                /\ lock' = lock
                /\ pc' = pc
                /\ out'[c] = <<Ev("not_implemented", Null)>>))
          => \A m \in Messages : Malformed(m) => ~Receive(c, m)]_vars

\* the fallback arm has answered connection 1, whose user has an entry in the
\* registry and two tours in the store
C22_Witness ==
    /\ pc[1] = "client"
    /\ out[1] = <<Ev("not_implemented", Null)>>
    /\ sessions # EmptyMap
    /\ Cardinality(DOMAIN store.tours) = 2

\* the positions in the events of connection c's current message that hold an
\* event of the given type
EventsOf(c, type) == {i \in 1..Len(out[c]) : out[c][i].type = type}

\* C23: among the events of one EditTour request without an editor action,
\* editor_ready comes only after the tour_data of the same tour and there is at
\* most one of each; when the tour does not exist or belongs to another user the
\* request ends with the single event error and the registry as it was.
C23_SnapshotBeforeReady ==
    /\ [](\A c \in Clients :
            /\ Cardinality(EventsOf(c, "tour_data")) <= 1
            /\ Cardinality(EventsOf(c, "editor_ready")) <= 1
            /\ \A i \in EventsOf(c, "editor_ready") :
                  /\ i = 2
                  /\ out[c][1] = Ev("tour_data", out[c][i].id))
    /\ [][\A c \in Clients : \A t \in 1..MaxTourId :
            (pc[c] = "client" /\ ~LoadOk(store, user_name[c], t)
                /\ OpenTourData(c, t))
            => /\ out'[c] = <<ErrorEv>>
               /\ sessions' = sessions
               /\ pc'[c] = "client"]_vars

\* connection 1 has received tour_data and editor_ready for tour 2, whose entry
\* is in the registry; connection 2, of another user, asked for tour 1 and
\* received the error
C23_Witness ==
    /\ out[1] = <<Ev("tour_data", 2), Ev("editor_ready", 2)>>
    /\ SessionKey(UserA, 2) \in DOMAIN sessions
    /\ pc[2] = "client"
    /\ user_name[2] = UserB
    /\ out[2] = <<ErrorEv>>
    /\ DOMAIN sessions = {SessionKey(UserA, 2)}

\* C24: when the outbound channel of a connection is closed while a command is
\* being processed, the command goes on as with an open channel: its next step
\* (the action with its persistence calls, the save, the store-back) is
\* enabled, and the store-back puts the connection's graph into the registry
\* and returns the connection to its message loop.
C24_DropKeepsCommand ==
    /\ [](\A c \in Clients : chan[c] = "closed"
            => /\ pc[c] = "fetched" => ENABLED SceneCommands(c)
               /\ pc[c] = "acted" => ENABLED SaveToDatabase(c)
               /\ pc[c] = "saved" => ENABLED UpdateEditorSession(c))
    /\ [][\A c \in Clients :
            (chan[c] = "closed" /\ pc[c] = "saved" /\ pc'[c] # "saved")
            => LET key == SessionKey(user_name[c], cur_tour[c])
               IN  /\ key \in DOMAIN sessions'
                   /\ sessions'[key] = editor_state[c]
                   /\ pc'[c] = "client"
                   /\ store' = store]_vars

\* the channel of connection 1 is closed; its last command added scene 3, which
\* is in the store and in the registry entry, and the connection is back in its
\* message loop
C24_Witness ==
    /\ chan[1] = "closed"
    /\ pc[1] = "client"
    /\ out[1] = <<Ev("scene_added", 3)>>
    /\ 3 \in DOMAIN store.assets
    /\ SessionKey(UserA, 1) \in DOMAIN sessions
    /\ 3 \in DOMAIN sessions[SessionKey(UserA, 1)].scene_index

C26_PlaceholdersAcknowledge ==
    /\ [][\A c \in Clients : \A kind \in PlaceholderKinds : \A arg \in 0..MaxAssetId :
            (pc[c] = "fetched" /\ ActPlaceholder(c, kind, arg))
            => /\ out'[c] = <<Ev("acknowledged", Null)>>
               /\ pc'[c] = "acted"
               /\ editor_state'[c] = editor_state[c]
               /\ sessions' = sessions
               /\ store' = store]_vars
    /\ [](\A c \in Clients : pc[c] = "fetched"
            => \A kind \in PlaceholderKinds : \A arg \in 0..MaxAssetId :
                  ENABLED ActPlaceholder(c, kind, arg))

\* a placeholder command on a graph of three scenes has been acknowledged
C26_Witness ==
    /\ pc[1] = "acted"
    /\ out[1] = <<Ev("acknowledged", Null)>>
    /\ Len(editor_state[1].scenes) = 3
    /\ editor_state[1] = sessions[SessionKey(UserA, 1)]

\* the rows of table tab in st that belong to tour t
RowsOfTour(st, tab, t) == {r \in DOMAIN st[tab] : st[tab][r].tour_id = t}

\* C28: delete_tour(username, tour_id) answers false and changes nothing when
\* the tour does not exist or belongs to another user; when it answers true no
\* connection row, asset row or tour row of that tour is left and the rows of
\* the other tours are as they were.
C28_DeleteTourContract ==
    [][\A c \in Clients : \A t \in 1..MaxTourId :
          (pc[c] = "client" /\ out'[c] # <<>> /\ out'[c][1].id = t
              /\ DeleteTour(c, t))
          => LET owned == t \in DOMAIN store.tours
                            /\ store.tours[t].owner = user_name[c]
                 answer == out'[c][1].type
             IN  /\ ~owned => /\ answer \in {"tour_not_found", "delete_failed"}
                              /\ store' = store
                 /\ answer = "tour_not_found" => ~owned
                 /\ answer = "tour_deleted"
                    => /\ owned
                       /\ t \notin DOMAIN store'.tours
                       /\ RowsOfTour(store', "assets", t) = {}
                       /\ RowsOfTour(store', "connections", t) = {}
                       /\ store'.tours = Restrict(store.tours, DOMAIN store.tours \ {t})
                       /\ store'.assets = Restrict(store.assets,
                             DOMAIN store.assets \ RowsOfTour(store, "assets", t))
                       /\ store'.connections = Restrict(store.connections,
                             DOMAIN store.connections
                                \ RowsOfTour(store, "connections", t))]_vars

\* user a has deleted tour 1 with its scenes and connections while tour 2 is
\* still there; user a_b, who asked to delete tour 1 before, was told that
\* there is no such tour
C28_Witness ==
    /\ out[1] = <<Ev("tour_deleted", 1), Ev("tours", Null)>>
    /\ DOMAIN store.tours = {2}
    /\ store.assets = EmptyMap
    /\ store.connections = EmptyMap
    /\ out[2] = <<Ev("tour_not_found", 1)>>

\* C30: the eviction of the editor sessions of the user who logs out removes
\* only that user's entries: every entry whose key is that of another user,
\* also of one whose name is the first user's name followed by an underscore
\* and more, is in the registry afterwards with the same graph.
C30_EvictionLeavesOthers ==
    [][\A c \in Clients :
          (pc[c] = "logging_out" /\ pc'[c] = "login")
          => \A v \in Users \ {user_name[c]} : \A t \in 1..MaxTourId :
                LET key == SessionKey(v, t)
                IN  key \in DOMAIN sessions
                    => /\ key \in DOMAIN sessions'
                       /\ sessions'[key] = sessions[key]]_vars

\* C31: a key enters the registry only through a first access that has loaded
\* the graph from the store: once a key is evicted, the store-back of a command
\* that was in flight on another connection of the same user does not put its
\* graph, fetched before the eviction, back under that key.
C31_EvictedStaysAbsent ==
    [][\A k \in DOMAIN sessions' \ DOMAIN sessions :
          \E c \in Clients :
             /\ pc[c] \in {"loaded", "open_loaded"}
             /\ pc'[c] # pc[c]
             /\ k = SessionKey(user_name[c], cur_tour[c])]_vars

\* C32: when the load of the graph fails during a first access, nothing is
\* inserted: the key is absent afterwards, the connection receives one error
\* and is back in its message loop, and the next EditTour on an absent key
\* starts a load again.
C32_FailedLoadInsertsNothing ==
    /\ [][\A c \in Clients :
            (/\ pc[c] \in {"loading", "open_loading"}
             /\ pc'[c] \notin {"loading", "open_loading", "loaded", "open_loaded"})
            => /\ sessions' = sessions
               /\ SessionKey(user_name[c], cur_tour[c]) \notin DOMAIN sessions'
               /\ store' = store
               /\ pc'[c] = "client"
               /\ out'[c] = Append(out[c], ErrorEv)]_vars
    /\ [][\A c \in Clients : \A t \in 1..MaxTourId :
            (/\ pc[c] = "client"
             /\ SessionKey(user_name[c], t) \notin DOMAIN sessions
             /\ EditTourFetch(c, t))
            => pc'[c] = "loading"]_vars
    /\ [](\A c \in Clients : pc[c] = "client"
            => \A t \in 1..MaxTourId : ENABLED EditTourFetch(c, t))

\* the load behind an EditTour without action failed after the snapshot was
\* sent: tour 1 exists, its key is not in the registry, the connection is in
\* its loop with the error as its last event
C32_Witness ==
    /\ pc[1] = "client"
    /\ out[1] = <<Ev("tour_data", 1), ErrorEv>>
    /\ 1 \in DOMAIN store.tours
    /\ SessionKey(UserA, 1) \notin DOMAIN sessions
    /\ SessionKey(UserA, 2) \in DOMAIN sessions

\* C33: when the command processor returns an error for an editor action, the
\* registry is not written: the entry of the key holds the graph it held before
\* the command, and the connection receives the error event and takes its next
\* message.
C33_FailedActionKeepsEntry ==
    [][\A c \in Clients :
          (pc[c] = "fetched" /\ pc'[c] # "fetched" /\ pc'[c] # "acted")
          => LET key == SessionKey(user_name[c], cur_tour[c])
             IN  /\ sessions' = sessions
                 /\ key \in DOMAIN sessions'
                 /\ sessions'[key] = editor_state[c]
                 /\ pc'[c] = "client"
                 /\ out'[c] = Append(out[c], ErrorEv)
                 /\ save_result'[c] = "none"]_vars

\* an AddCloseup failed after its asset row was written: the connection has
\* the error, the store has the closeup row, the registry entry is the graph
\* of the two stored scenes
C33_Witness ==
    /\ pc[1] = "client"
    /\ out[1] = <<ErrorEv>>
    /\ \E a \in DOMAIN store.assets : ~store.assets[a].is_scene
    /\ SessionKey(UserA, 1) \in DOMAIN sessions
    /\ sessions[SessionKey(UserA, 1)] = LoadGraph(SeedStore, UserA, 1)

\* C34: after a DeleteTour of tour T that succeeded for user U the registry has
\* no entry under the key of U and T.
C34_DeleteTourEvicts ==
    [][\A c \in Clients : \A t \in 1..MaxTourId :
          (/\ pc[c] = "client"
           /\ out'[c] = <<Ev("tour_deleted", t), Ev("tours", Null)>>
           /\ DeleteTour(c, t))
          => SessionKey(user_name[c], t) \notin DOMAIN sessions']_vars

\* the messages that name a tour or editor command
TourCommandTags == {"ShowTours", "CreateTour", "DeleteTour", "EditTour", "Logout"}

\* C35: on a connection in the login phase no tour or editor command is
\* carried out: ShowTours, CreateTour, DeleteTour, EditTour and Logout are
\* answered with the request to log in and nothing else happens (no registry
\* access, no persistence call, the connection stays in the login phase), and
\* no step of the logged-in handler can be taken.  (First conjunct stated
\* contrapositively: a step that does anything else is not the handling of
\* such a message.)
C35_LoginPhaseServesNothing ==
    /\ [][\A c \in Clients :
            (/\ pc[c] = "login"
             /\ ~(/\ out'[c] = <<Ev("please_log_in", Null)>>
                  /\ pc' = pc
                  /\ user_name' = user_name
                  /\ sessions' = sessions
                  /\ store' = store
                  /\ auth' = auth
                  /\ editor_state' = editor_state
                  /\ cur_tour' = cur_tour
                  /\ lock' = lock))
            => \A m \in Messages : \A u \in Users :
                  m.tag \in TourCommandTags => ~LoginReceive(c, m, u)]_vars
    /\ [](\A c \in Clients : pc[c] = "login"
            => /\ ~ENABLED TakesMessage(c)
               /\ user_name[c] = NoUser
               /\ editor_state[c] = NoState
               /\ cur_tour[c] = Null)

\* connection 1, back in the login phase after a logout, has sent a command
\* and was asked to log in; the store holds two tours
C35_Witness ==
    /\ pc[1] = "login"
    /\ out[1] = <<Ev("please_log_in", Null)>>
    /\ Cardinality(DOMAIN store.tours) = 2
    /\ evicted[1] = {}

\* the phase of connection c: not yet accepted, login phase, logged-in phase,
\* ended
Phase(c) ==
    CASE pc[c] = "new" -> "new"
      [] pc[c] = "login" -> "login"
      [] pc[c] = "closed" -> "closed"
      [] OTHER -> "in"

\* C36: a connection starts in the login phase and enters the logged-in phase
\* only by a Login, Register or RestoreSession that succeeded; a Logout brings
\* it back to the login phase with the socket kept open; it ends only from one
\* of the two phases, by Disconnect, Quit or a transport error, which is
\* possible in both; once ended it stays so.
C36_Lifecycle ==
    /\ [][\A c \in Clients :
            Phase(c)' # Phase(c)
            => \/ /\ Phase(c) = "new"
                  /\ Phase(c)' = "login"
               \/ /\ Phase(c) = "login"
                  /\ Phase(c)' = "in"
                  /\ \E u \in Users : LoginOk(c, u)
               \/ /\ Phase(c) = "login"
                  /\ Phase(c)' = "closed"
               \/ /\ Phase(c) = "in"
                  /\ Phase(c)' = "login"
                  /\ pc[c] \in {"logging_out", "cleaning"}
                  /\ chan'[c] = chan[c]
                  /\ user_name'[c] = NoUser
               \/ /\ Phase(c) = "in"
                  /\ Phase(c)' = "closed"
                  /\ Disconnect(c)]_vars
    /\ [][\A c \in Clients :
            (pc[c] = "logging_out" /\ pc'[c] # pc[c]) => pc'[c] = "login"]_vars
    /\ [](\A c \in Clients :
            /\ pc[c] = "login" => ENABLED LoginPhaseEnd(c)
            /\ pc[c] = "client" => ENABLED Disconnect(c) /\ ENABLED LogoutUser(c))

\* connection 1 is back in the login phase after a Logout: the reply of the
\* Logout is its last event and its channel is open
C36_Witness ==
    /\ pc[1] = "login"
    /\ out[1] = <<Ev("logged_out", Null)>>
    /\ chan[1] = "open"
    /\ user_name[1] = NoUser
    /\ Cardinality(DOMAIN store.tours) = 2

\* the connections whose handle_websocket has started and not returned
Running == {c \in Clients : pc[c] \notin {"new", "closed"}}

\* C37: the connection counter equals the number of handlers that have started
\* and not finished and is never below zero; it goes up by one exactly when a
\* connection is accepted and down by one exactly when a handler ends, on
\* whichever path.
C37_ConnectionCounter ==
    /\ [](/\ active_connections = Cardinality(Running)
          /\ active_connections >= 0)
    /\ [][\A c \in Clients :
            /\ (pc[c] = "new" /\ pc'[c] # "new")
                  => active_connections' = active_connections + 1
            /\ (pc[c] # "closed" /\ pc'[c] = "closed")
                  => active_connections' = active_connections - 1]_vars
    /\ [][active_connections' # active_connections
            => \E c \in Clients :
                  \/ pc[c] = "new" /\ pc'[c] # "new"
                  \/ pc[c] # "closed" /\ pc'[c] = "closed"]_vars

\* connection 1 has ended from the logged-in phase and connection 2 from the
\* login phase: the counter is back at zero
C37_Witness ==
    /\ pc[1] = "closed"
    /\ pc[2] = "closed"
    /\ user_name[1] = UserA
    /\ user_name[2] = NoUser
    /\ active_connections = 0

(***************************************************************************)
(* importer.rs: parse_tourdata_js.                                         *)
(* A text is a sequence of pieces.  The two braces are themselves; every   *)
(* other piece stands for a run of characters that holds no brace:         *)
(*   "c"  const tourData =            ";"  the closing semicolon           *)
(*   "n"  "name": "Sample",           "i"  "id": 1,                        *)
(*   "["  "scenes": [                 "]"  the end of the scenes array     *)
(*   "s"  the fields of one scene: "name": "S", "connections": []          *)
(* (the commas between the members are part of the runs).                  *)
(***************************************************************************)
Pieces == {"{", "}", "c", ";", "n", "i", "[", "]", "s"}

\* the longest text made of arbitrary pieces
MaxPieces == 4

\* str::find / str::rfind of a brace: the first and the last position, 0 = None
Find(text, ch) ==
    LET at == {k \in 1..Len(text) : text[k] = ch}
    IN  IF at = {} THEN 0 ELSE CHOOSE k \in at : \A j \in at : k <= j

RFind(text, ch) ==
    LET at == {k \in 1..Len(text) : text[k] = ch}
    IN  IF at = {} THEN 0 ELSE CHOOSE k \in at : \A j \in at : k >= j

\* the array of scenes: zero or more objects of scene fields
RECURSIVE SceneObjects(_)
SceneObjects(t) ==
    IF t = <<>> THEN 0
    ELSE IF Len(t) >= 3 /\ SubSeq(t, 1, 3) = <<"{", "s", "}">>
              /\ SceneObjects(SubSeq(t, 4, Len(t))) >= 0
         THEN 1 + SceneObjects(SubSeq(t, 4, Len(t)))
         ELSE -1

\* serde_json::from_str::<RawTourData>: name and scenes are required, id is
\* an Option and may be left out
FromStr(t) ==
    LET n == Len(t)
        body == SubSeq(t, 2, n - 1)
        has_id == body # <<>> /\ body[1] = "i"
        rest == IF has_id THEN SubSeq(body, 2, Len(body)) ELSE body
        scenes == SceneObjects(SubSeq(rest, 3, Len(rest) - 1))
    IN  IF /\ n >= 5 /\ t[1] = "{" /\ t[n] = "}"
           /\ Len(rest) >= 3 /\ rest[1] = "n" /\ rest[2] = "["
           /\ rest[Len(rest)] = "]" /\ scenes >= 0
        THEN [kind |-> "ok", name |-> "n", id |-> has_id, scenes |-> scenes]
        ELSE [kind |-> "err", msg |-> "Failed to parse JSON"]

\* parse_tourdata_js.  &contents[start..=end] is the range start..end+1: it
\* is empty when start = end + 1 and panics (slice index starts past its end)
\* when start > end + 1
ParseTourdataJs(text) ==
    LET start == Find(text, "{")
        end == RFind(text, "}")
    IN  IF start = 0
        THEN [kind |-> "err", msg |-> "No opening brace found in tourData.js"]
        ELSE IF end = 0
        THEN [kind |-> "err", msg |-> "No closing brace found"]
        ELSE IF start > end + 1
        THEN [kind |-> "panic"]
        ELSE FromStr(SubSeq(text, start, end))

\* the texts an export writes: const tourData = { ... };
RECURSIVE Repeat(_, _)
Repeat(t, k) == IF k = 0 THEN <<>> ELSE t \o Repeat(t, k - 1)

Exported(has_id, k) ==
    <<"c", "{">> \o (IF has_id THEN <<"i">> ELSE <<>>) \o <<"n", "[">>
                 \o Repeat(<<"{", "s", "}">>, k) \o <<"]", "}", ";">>

ExportedTexts == {Exported(has_id, k) : has_id \in BOOLEAN, k \in 0..2}

\* every text of up to MaxPieces pieces
RECURSIVE TextsOf(_)
TextsOf(k) ==
    IF k = 0 THEN {<<>>}
    ELSE LET shorter == TextsOf(k - 1)
         IN  shorter \cup {Append(t, p) : t \in shorter, p \in Pieces}

\* what tourData.js may hold: an exported text, one cut short or with
\* something put before or after it, or any short text
Texts ==
    LET damaged ==
            UNION {{SubSeq(t, 1, k) : k \in 0..Len(t)} \cup
                   {<<p>> \o t : p \in Pieces} \cup {t \o <<p>> : p \in Pieces}
                   : t \in ExportedTexts}
    IN  ExportedTexts \cup damaged \cup TextsOf(MaxPieces)

ParseInit ==
    /\ store = EmptyStore
    /\ HandlerInit
    /\ graph = NoState
    /\ last = NoCall
    /\ contents \in Texts
    /\ parsed = NoParse
    /\ imp = NoImport

\* one call of parse_tourdata_js on the text read from tourData.js
Parse ==
    /\ parsed = NoParse
    /\ parsed' = ParseTourdataJs(contents)
    /\ UNCHANGED <<hvars, gvars, contents, imp>>

SpecParse == ParseInit /\ [][Parse]_vars

(***************************************************************************)
(* importer.rs: import_tour_from_export.                                   *)
(* An export (RawTourData) is                                              *)
(*   [initial_scene_id, has_floorplan, scenes], a scene is                 *)
(*   [id, name, connections], a connection is                              *)
(*   [target_scene_id, connection_type]; Null stands for an id that is     *)
(*   None.                                                                 *)
(* imp holds the locals of the call:                                       *)
(*   pc, raw, new_tour_id, scene_id_map, name_to_new_scene,                *)
(*   new_scene_ids (what save_scene returned for each scene, in order),    *)
(*   new_floorplan_id, i and j (the scene and the connection the loops     *)
(*   stand at), saved (for each saved connection its row id and its place  *)
(*   in the export), connection_count, closeup_count, result.              *)
(***************************************************************************)
\* the ids an export carries; they are no row ids of the importing store
ExportIds == {7, 8}
AbsentId == 9
MinusOne == 0 - 1

SceneNames == {"hall", "stairs"}
\* connection_type: "None" stands for a connection without the field
ConnectionTypes == {"Transition", "Closeup", "None"}

RawConnections ==
    [target_scene_id : ExportIds \cup {AbsentId, Null},
     connection_type : ConnectionTypes]

RawScenes ==
    [id : ExportIds \cup {Null}, name : SceneNames,
     connections : {<<>>} \cup {<<k>> : k \in RawConnections}]

RawTours ==
    [initial_scene_id : {Null, 7}, has_floorplan : BOOLEAN,
     scenes : {<<>>} \cup {<<s>> : s \in RawScenes}
                     \cup {<<s, t>> : s \in RawScenes, t \in RawScenes}]

\* HashMap::get(...).copied(): Null = None
Get(map, key) == IF key \in DOMAIN map THEN map[key] ELSE Null

\* HashMap::insert
Put(map, key, value) == (key :> value) @@ map

ImportLocals(raw) ==
    [pc |-> "begin", raw |-> raw, new_tour_id |-> Null,
     scene_id_map |-> EmptyMap, name_to_new_scene |-> EmptyMap,
     new_scene_ids |-> <<>>, new_floorplan_id |-> Null, i |-> 1, j |-> 1,
     saved |-> <<>>, connection_count |-> 0, closeup_count |-> 0,
     result |-> [kind |-> "none"]]

ImportInit ==
    /\ store \in {EmptyStore, SeedStore}
    /\ HandlerInit
    /\ graph = NoState
    /\ last = NoCall
    /\ contents = <<>>
    /\ parsed = NoParse
    /\ imp \in {ImportLocals(raw) : raw \in RawTours}

\* a `?` that returned the error: the call is over, what was written stays
ImportFails ==
    /\ imp' = [imp EXCEPT !.pc = "done", !.result = [kind |-> "err"]]
    /\ UNCHANGED store

\* tourData.js is looked for, read and parsed, then create_tour
ImportBegin ==
    /\ imp.pc = "begin"
    /\ \/ ImportFails
       \/ /\ NewRowId(store, "tours") <= MaxTourId
          /\ store' = DbCreateTour(store, UserA)
          /\ imp' = [imp EXCEPT !.pc = "scenes",
                                !.new_tour_id = NewRowId(store, "tours")]
    /\ UNCHANGED <<handler_locals, gvars, contents, parsed>>

\* one turn of "for scene in &raw.scenes" of the first loop
ImportScene ==
    /\ imp.pc = "scenes"
    /\ IF imp.i > Len(imp.raw.scenes)
       THEN /\ imp' = [imp EXCEPT !.pc = "floorplan", !.i = 1]
            /\ UNCHANGED store
       ELSE LET scene == imp.raw.scenes[imp.i]
                new_scene_id == NewRowId(store, "assets")
            IN  \/ ImportFails
                \/ /\ store' = DbSaveScene(store, imp.new_tour_id)
                   /\ imp' = [imp EXCEPT
                        !.scene_id_map =
                            IF scene.id # Null
                            THEN Put(@, scene.id, new_scene_id) ELSE @,
                        !.name_to_new_scene = Put(@, scene.name, new_scene_id),
                        !.new_scene_ids = Append(@, new_scene_id),
                        !.i = @ + 1]
    /\ UNCHANGED <<handler_locals, gvars, contents, parsed>>

\* save_floorplan is not in database/mod.rs: it gives the new row's id or
\* an error
ImportFloorplan ==
    /\ imp.pc = "floorplan"
    /\ \/ /\ imp.raw.has_floorplan
          /\ \/ ImportFails
             \/ /\ imp' = [imp EXCEPT !.pc = "connections",
                                      !.new_floorplan_id = 1]
                /\ UNCHANGED store
       \/ /\ ~imp.raw.has_floorplan
          /\ imp' = [imp EXCEPT !.pc = "connections"]
          /\ UNCHANGED store
    /\ UNCHANGED <<handler_locals, gvars, contents, parsed>>

\* start_new_id: the map of exported ids is asked first (with -1 for a scene
\* without id), the map of names second
StartNewId(locals, scene) ==
    LET by_id == Get(locals.scene_id_map,
                     IF scene.id = Null THEN MinusOne ELSE scene.id)
    IN  IF by_id # Null THEN by_id
        ELSE locals.name_to_new_scene[scene.name]

\* end_id: target_scene_id.and_then(|old| scene_id_map.get(&old).copied())
EndId(locals, conn) ==
    IF conn.target_scene_id = Null THEN Null
    ELSE Get(locals.scene_id_map, conn.target_scene_id)

\* the save_connection the importer calls (nine arguments) is not the one of
\* database/mod.rs (eight): it inserts the row and gives its id, or an error
ImportSaveConnection(st, tour_id, start_id, end_id, is_transition) ==
    [st EXCEPT !.connections =
                  (NewRowId(st, "connections") :>
                      [tour_id |-> tour_id, start_id |-> start_id,
                       end_id |-> end_id, is_transition |-> is_transition])
                  @@ @,
               !.seq.connections = @ + 1]

\* one turn of the second loop: the next connection of scene i, or on to the
\* next scene
ImportConnection ==
    /\ imp.pc = "connections"
    /\ IF imp.i > Len(imp.raw.scenes)
       THEN /\ imp' = [imp EXCEPT !.pc = "finish"]
            /\ UNCHANGED store
       ELSE LET scene == imp.raw.scenes[imp.i]
            IN  IF imp.j > Len(scene.connections)
                THEN /\ imp' = [imp EXCEPT !.i = @ + 1, !.j = 1]
                     /\ UNCHANGED store
                ELSE LET conn == scene.connections[imp.j]
                         is_transition == conn.connection_type = "Transition"
                     IN  \/ ImportFails
                         \/ /\ store' = ImportSaveConnection(store,
                                   imp.new_tour_id, StartNewId(imp, scene),
                                   EndId(imp, conn), is_transition)
                            /\ imp' = [imp EXCEPT
                                 !.saved = Append(@,
                                     [row |-> NewRowId(store, "connections"),
                                      scene |-> imp.i, conn |-> imp.j]),
                                 !.connection_count = @ + 1,
                                 !.closeup_count =
                                     IF is_transition THEN @ ELSE @ + 1,
                                 !.j = @ + 1]
    /\ UNCHANGED <<handler_locals, gvars, contents, parsed>>

\* the floorplan markers (save_floorplan_marker is not in database/mod.rs),
\* set_initial_scene whose error is dropped, and the result
ImportFinish ==
    /\ imp.pc = "finish"
    /\ \/ /\ imp.new_floorplan_id # Null
          /\ ImportFails
       \/ LET mapped == Get(imp.scene_id_map, imp.raw.initial_scene_id)
              done == [kind |-> "ok", tour_id |-> imp.new_tour_id,
                       scene_count |-> Len(imp.raw.scenes),
                       connection_count |-> imp.connection_count,
                       closeup_count |-> imp.closeup_count,
                       floorplan_id |-> imp.new_floorplan_id]
          IN  /\ imp' = [imp EXCEPT !.pc = "done", !.result = done]
              /\ \/ /\ imp.raw.initial_scene_id # Null /\ mapped # Null
                    /\ store' = DbSetInitialScene(store, imp.new_tour_id, mapped)
                 \/ UNCHANGED store
    /\ UNCHANGED <<handler_locals, gvars, contents, parsed>>

ImportNext ==
    \/ ImportBegin
    \/ ImportScene
    \/ ImportFloorplan
    \/ ImportConnection
    \/ ImportFinish

SpecImport == ImportInit /\ [][ImportNext]_vars

(***************************************************************************)
(* The importer's claims.                                                  *)
(***************************************************************************)
\* positions in the export of the scenes that carry the exported id
ScenesWithId(raw, id) ==
    {n \in 1..Len(raw.scenes) : id # Null /\ raw.scenes[n].id = id}

\* the connections of an export, as <<scene, connection>> positions
ExportConnections(raw) ==
    {<<n, k>> \in (1..2) \X (1..2) :
        n <= Len(raw.scenes) /\ k <= Len(raw.scenes[n].connections)}

C39_ParseContract ==
    parsed.kind # "none" =>
        LET start == Find(contents, "{")
            end == RFind(contents, "}")
            valid == /\ start <= end
                     /\ FromStr(SubSeq(contents, start, end)).kind = "ok"
        IN  /\ \A has_id \in BOOLEAN, k \in 0..2 :
                  contents = Exported(has_id, k)
                      => parsed = [kind |-> "ok", name |-> "n",
                                   id |-> has_id, scenes |-> k]
            /\ (start = 0 \/ end = 0 \/ ~valid) => parsed.kind = "err"

====
